---- MODULE Spec2Model ----
(***************************************************************************)
(* Model of pretraining/modeling_roberta.py: the RoBERTa encoder with the  *)
(* optional N-gram side channel, its transformer layer, the prediction     *)
(* heads and the three model variants.                                     *)
(*                                                                         *)
(* Tensors whose numeric content is produced by the tensor runtime are     *)
(* terms <<tag, id, args>> that record which module was applied to which   *)
(* operands; tensors are objects in `heap` and are named by their index,   *)
(* so that "the same tensor" and "an equal tensor" are different things.   *)
(* Integer tensors the code computes on itself (padding masks, labels,     *)
(* index lists, logits of the toy head) are modelled by their values.      *)
(***************************************************************************)
EXTENDS Integers, Sequences, FiniteSets, TLC

VARIABLES
  \* RobertaSelfAttention.__init__
  attn_config, attn_state,
  \* one call of RobertaLayer.forward
  layer_call, layer_ret,
  \* RobertaEncoder.forward
  config, enc_args, enc,
  \* the attention bias built by RobertaModel.forward
  bias_call, bias_ret,
  \* the masked-token index list of a label tensor
  idx_labels, idx_ret,
  \* the parameters of a model with a masked-LM head
  tie,
  \* one call of RobertaForSequenceClassification.forward
  cls_call, cls_ret,
  \* one call of RobertaForPreTraining.forward or RobertaLMHeadModel.forward
  mlm_call, mlm_ret,
  \* one call of RMSNorm.forward
  rms_call, rms_ret,
  \* the optional providers: what is installed, and the requests made
  prov_env, prov_log,
  \* an embedding composer: its construction and one forward call
  emb_call, emb_mod, emb_ret,
  \* the modules of a model variant under construction
  ini_cfg, ini

attnVars  == <<attn_config, attn_state>>
layerVars == <<layer_call, layer_ret>>
encVars   == <<config, enc_args, enc>>
biasVars  == <<bias_call, bias_ret>>
idxVars   == <<idx_labels, idx_ret>>
tieVars   == <<tie>>
clsVars   == <<cls_call, cls_ret>>
mlmVars   == <<mlm_call, mlm_ret>>
rmsVars == <<rms_call, rms_ret>>
provVars == <<prov_env, prov_log>>
embVars == <<emb_call, emb_mod, emb_ret>>
iniVars == <<ini_cfg, ini>>
vars == <<attnVars, layerVars, encVars, biasVars, idxVars, tieVars, clsVars, mlmVars, rmsVars, provVars, embVars, iniVars>>

-----------------------------------------------------------------------------
(* Bounds *)

MaxHidden == 12
MaxHeads == 6
MaxLayers == 3
MaxCkptLayers == 10
MaxNgramLayers == 3
MaxBatch == 2
MaxSeq == 3
MaxFlat == 10
MaxUpdates == 3
MaxWeight == 2
MaxNumLabels == 4
VocabSize == 2
MaxMlmSeq == 2
MaxMlmFlat == 4
MaxDim == 4
MaxRequests == 2
MaxEmbBatch == 1
MaxEmbSeq == 2
MaxIniLayers == 2

-----------------------------------------------------------------------------
(* Terms *)

T(tag, id, args) == <<tag, id, args>>
Leaf(name) == T(name, 0, <<>>)
NoneV == Leaf("None")
TypeError == Leaf("TypeError")
PyTuple(a, b) == T("tuple", 0, <<a, b>>)
IsTuple(x) == x[1] = "tuple"
IsError(x) == x[1] = "TypeError"
\* a + b on tensors
Add(a, b) == T("add", 0, <<a, b>>)

\* python's `s in t` on strings; the strings are sequences of characters
StrIn(s, t) ==
  \E k \in 0..(Len(t) - Len(s)) : SubSeq(t, k + 1, k + Len(s)) = s

PreLn == <<"p", "r", "e", "-", "l", "n">>
PostLn == <<"p", "o", "s", "t", "-", "l", "n">>
LnModes == {PreLn, PostLn}

-----------------------------------------------------------------------------
(* Optional providers: deepspeed and the layer-norm kinds *)

Raised(exc) == [raised |-> TRUE, value |-> exc]
Returned(v) == [raised |-> FALSE, value |-> v]

\* hasattr(args, name) and args.name, on an attribute that is "absent" or
\* holds a value
Truthy(v) == v \notin {"absent", "None", "False", ""}

\* get_deepspeed_config(args)
get_deepspeed_config(env, args) ==
  IF Truthy(args.deepspeed_config)
  THEN IF env.deepspeed_installed THEN Returned("DeepSpeedConfig")
       ELSE Raised("ImportError")
  ELSE Raised("RuntimeError")

\* get_apex_layer_norm(): the try block imports nothing and returns
\* torch.nn.LayerNorm, so its except ImportError clause is never entered
get_apex_layer_norm(env) == Returned("torch.nn.LayerNorm")

\* LAYER_NORM_TYPES, built when the module is loaded
LAYER_NORM_TYPES(env) ==
  [k \in {"pytorch", "apex", "rms_norm"} |->
     IF k = "pytorch" THEN "torch.nn.LayerNorm"
     ELSE IF k = "apex" THEN get_apex_layer_norm(env).value
     ELSE "RMSNorm"]

\* get_layer_norm_type(config)
get_layer_norm_type(env, layer_norm_type) ==
  IF layer_norm_type \in DOMAIN env.LAYER_NORM_TYPES
  THEN Returned(env.LAYER_NORM_TYPES[layer_norm_type])
  ELSE Raised("Exception")

\* RobertaEncoder.__init__, lines 498-541: the norm class, then the layers
RobertaEncoder_init(env, layer_norm_type, args) ==
  IF get_layer_norm_type(env, layer_norm_type).raised
  THEN get_layer_norm_type(env, layer_norm_type)
  ELSE IF Truthy(args.deepspeed_transformer_kernel)
  THEN IF ~env.deepspeed_installed THEN Raised("ImportError")
       ELSE IF get_deepspeed_config(env, args).raised
       THEN get_deepspeed_config(env, args)
       ELSE Returned("DeepSpeedTransformerLayer")
  ELSE Returned("RobertaLayer")

LayerNormKinds == {"pytorch", "apex", "rms_norm", "fused"}
ProviderArgs == [deepspeed_transformer_kernel : {"absent", "False", "True"},
                 deepspeed_config : {"absent", "None", "ds_config.json"}]
NoArgs == [deepspeed_transformer_kernel |-> "absent", deepspeed_config |-> "absent"]

Logged(request, layer_norm_type, args, result) ==
  [request |-> request, layer_norm_type |-> layer_norm_type, args |-> args,
   result |-> result]

\* import of the module: LAYER_NORM_TYPES is built
LoadModule ==
  /\ ~prov_env.loaded
  /\ prov_env' = [prov_env EXCEPT !.loaded = TRUE,
                                  !.LAYER_NORM_TYPES = LAYER_NORM_TYPES(prov_env)]
  /\ UNCHANGED prov_log

CallGetLayerNormType ==
  /\ prov_env.loaded /\ Len(prov_log) < MaxRequests
  /\ \E kind \in LayerNormKinds :
       prov_log' = Append(prov_log,
         Logged("get_layer_norm_type", kind, NoArgs, get_layer_norm_type(prov_env, kind)))
  /\ UNCHANGED prov_env

CallGetDeepspeedConfig ==
  /\ prov_env.loaded /\ Len(prov_log) < MaxRequests
  /\ \E args \in ProviderArgs :
       prov_log' = Append(prov_log,
         Logged("get_deepspeed_config", "pytorch", args, get_deepspeed_config(prov_env, args)))
  /\ UNCHANGED prov_env

ConstructEncoder ==
  /\ prov_env.loaded /\ Len(prov_log) < MaxRequests
  /\ \E kind \in LayerNormKinds, args \in ProviderArgs :
       prov_log' = Append(prov_log,
         Logged("RobertaEncoder", kind, args, RobertaEncoder_init(prov_env, kind, args)))
  /\ UNCHANGED prov_env

-----------------------------------------------------------------------------
(* RMSNorm *)

\* partial_fraction p is held as a fraction num / den.  The fractions inside
\* [0, 1] are multiples of a quarter, which floating point holds exactly.
Frac(num, den) == [num |-> num, den |-> den]
PFractions == {Frac(-1, 5), Frac(-1, 4), Frac(0, 4), Frac(1, 4), Frac(2, 4), Frac(3, 4),
               Frac(1, 1), Frac(5, 4), Frac(3, 2)}

RECURSIVE SumSq(_, _)
\* the square of x[..., :n].norm(2, dim=-1)
SumSq(x, n) == IF n = 0 THEN 0 ELSE x[n] * x[n] + SumSq(x, n - 1)

PartialDisabled_neg(p) == p.num < 0

\* if self.p < 0.0 or self.p > 1.0
PartialDisabled(p) == p.num < 0 \/ p.num > p.den

\* int(self.d * self.p), for p >= 0
PartialSize(d, p) == (d * p.num) \div p.den

RmsIdle == [status |-> "none", x |-> <<>>, norm_sq |-> 0, d_x |-> 0, offset |-> FALSE]

\* lines 236-241: scale * x / (sqrt(norm_sq) * d_x ** (-1/2) + eps), plus
\* the offset if self.bias
Normed(c, norm_sq, d_x) ==
  [status |-> "returned", x |-> c.x, norm_sq |-> norm_sq, d_x |-> d_x,
   offset |-> c.bias]

\* RMSNorm.forward.  torch.split raises on a negative section size, and
\* the python int 0 raised to a negative power is a ZeroDivisionError.
RMSNorm_forward(c) ==
  IF PartialDisabled(c.p)
  THEN Normed(c, SumSq(c.x, c.d), c.d)
  ELSE IF PartialSize(c.d, c.p) > c.d
  THEN [RmsIdle EXCEPT !.status = "RuntimeError"]
  ELSE IF PartialSize(c.d, c.p) = 0
  THEN [RmsIdle EXCEPT !.status = "ZeroDivisionError"]
  ELSE Normed(c, SumSq(c.x, PartialSize(c.d, c.p)), PartialSize(c.d, c.p))

RmsForward ==
  /\ rms_ret.status = "none"
  /\ rms_ret' = RMSNorm_forward(rms_call)
  /\ UNCHANGED rms_call

-----------------------------------------------------------------------------
(* RobertaEmbeddings and RobertaNgramEmbeddings *)

\* RobertaEmbeddings.__init__, lines 264-269.  The configuration holds the
\* attribute layernorm_embedding and, apart from it, may hold an attribute
\* whose name is the string "config.layernorm_embedding"; hasattr asks for
\* the latter, the assignment reads the former.
RobertaEmbeddings_init(cfg) ==
  IF cfg.dotted_attr # "absent"
  THEN IF cfg.layernorm_embedding = "absent"
       THEN [status |-> "AttributeError", layernorm_embedding |-> FALSE]
       ELSE [status |-> "constructed",
             layernorm_embedding |-> Truthy(cfg.layernorm_embedding)]
  ELSE [status |-> "constructed", layernorm_embedding |-> FALSE]

\* torch.zeros_like(input_ids)
zeros_like(input_ids) ==
  [b \in DOMAIN input_ids |-> [k \in DOMAIN input_ids[b] |-> 0]]

\* RobertaEmbeddings.forward, entry by entry of the (batch, seq) grid
RobertaEmbeddings_forward(mod, input_ids, token_type_given, token_type_ids) ==
  LET tt == IF token_type_given THEN token_type_ids ELSE zeros_like(input_ids)
  IN [b \in DOMAIN input_ids |-> [k \in DOMAIN input_ids[b] |->
       LET position_ids == k - 1
           embeddings ==
             Add(Add(T("word_embeddings", input_ids[b][k], <<>>),
                     T("position_embeddings", position_ids, <<>>)),
                 T("token_type_embeddings", tt[b][k], <<>>))
       IN T("dropout", 0,
            <<IF mod.layernorm_embedding THEN T("LayerNorm", 0, <<embeddings>>)
              ELSE embeddings>>)]]

\* RobertaNgramEmbeddings.forward
RobertaNgramEmbeddings_forward(input_ids, token_type_given, token_type_ids) ==
  LET tt == IF token_type_given THEN token_type_ids ELSE zeros_like(input_ids)
  IN [b \in DOMAIN input_ids |-> [k \in DOMAIN input_ids[b] |->
       T("dropout", 0,
         <<T("LayerNorm", 0,
             <<Add(T("word_embeddings", input_ids[b][k], <<>>),
                   T("token_type_embeddings", tt[b][k], <<>>))>>)>>)]]

EmbModIdle == [status |-> "new", layernorm_embedding |-> FALSE]
EmbRetIdle == [status |-> "none", embeddings |-> <<>>]

EmbConstruct ==
  /\ emb_mod.status = "new"
  /\ emb_mod' = IF emb_call.composer = "RobertaEmbeddings"
                THEN RobertaEmbeddings_init(emb_call.config)
                ELSE [status |-> "constructed", layernorm_embedding |-> TRUE]
  /\ UNCHANGED <<emb_call, emb_ret>>

EmbForward ==
  /\ emb_mod.status = "constructed"
  /\ emb_ret.status = "none"
  /\ emb_ret' =
       [status |-> "returned",
        embeddings |->
          IF emb_call.composer = "RobertaEmbeddings"
          THEN RobertaEmbeddings_forward(emb_mod, emb_call.input_ids,
                 emb_call.token_type_given, emb_call.token_type_ids)
          ELSE RobertaNgramEmbeddings_forward(emb_call.input_ids,
                 emb_call.token_type_given, emb_call.token_type_ids)]
  /\ UNCHANGED <<emb_call, emb_mod>>

-----------------------------------------------------------------------------
(* RobertaSelfAttention.__init__ and the constructors that reach it *)

AttnIdle == [status |-> "new", num_attention_heads |-> 0,
             attention_head_size |-> 0, all_head_size |-> 0]

HeadsCheckFails_swapped(hidden_size, num_attention_heads) ==
  num_attention_heads % hidden_size # 0

\* if config.hidden_size % config.num_attention_heads != 0: raise ValueError
HeadsCheckFails(hidden_size, num_attention_heads) ==
  hidden_size % num_attention_heads # 0

RobertaSelfAttention_init(c) ==
  IF HeadsCheckFails(c.hidden_size, c.num_attention_heads)
  THEN [status |-> "ValueError", num_attention_heads |-> 0,
        attention_head_size |-> 0, all_head_size |-> 0]
  ELSE [status |-> "constructed",
        num_attention_heads |-> c.num_attention_heads,
        attention_head_size |-> c.hidden_size \div c.num_attention_heads,
        all_head_size |-> c.num_attention_heads
                          * (c.hidden_size \div c.num_attention_heads)]

\* RobertaLayer.__init__ builds RobertaAttention, which builds
\* RobertaSelfAttention first; RobertaEncoder.__init__ (no transformer
\* kernel) builds one RobertaLayer and deep-copies it; RobertaModel.__init__
\* builds the encoder; every model variant builds a RobertaModel.  An
\* exception raised by the innermost constructor leaves through all of them.
Targets == {"RobertaSelfAttention", "RobertaLayer", "RobertaEncoder", "RobertaModel",
            "RobertaForPreTraining", "RobertaLMHeadModel",
            "RobertaForSequenceClassification"}

Construct(c) == RobertaSelfAttention_init(c)

ConstructAttention ==
  /\ attn_state.status = "new"
  /\ attn_state' = Construct(attn_config)
  /\ UNCHANGED attn_config

-----------------------------------------------------------------------------
(* RobertaLayer *)

maybe_layer_norm_anymode(cfg, lname, idx, hs, layer_norm, current_ln_mode) ==
  IF cfg.useLN
  THEN T(layer_norm, idx, <<T(lname, idx, <<>>), hs>>)
  ELSE hs

\* RobertaLayer.maybe_layer_norm; layer_norm is the name of the norm module
maybe_layer_norm(cfg, lname, idx, hs, layer_norm, current_ln_mode) ==
  IF cfg.useLN /\ StrIn(cfg.encoder_ln_mode, current_ln_mode)
  THEN T(layer_norm, idx, <<T(lname, idx, <<>>), hs>>)
  ELSE hs

\* x * 1 / keep_prob, keep_prob in percent
DivKeepProb(x, keep_prob) ==
  IF keep_prob = 100 THEN x ELSE T("div_keep_prob", keep_prob, <<x>>)

\* RobertaAttention.forward: (attention_output, attention_probs)
RobertaAttention_forward(lname, idx, input_tensor, attention_mask) ==
  [attention_output |-> T("attention.output", idx,
                          <<T(lname, idx, <<>>), input_tensor, attention_mask>>),
   attention_probs |-> T("attention_probs", idx,
                          <<T(lname, idx, <<>>), input_tensor, attention_mask>>)]

\* RobertaOutput.forward(RobertaIntermediate.forward(x))
FeedForward(lname, idx, x) ==
  T("output", idx, <<T(lname, idx, <<>>), T("intermediate", idx, <<T(lname, idx, <<>>), x>>)>>)

\* The value computed by RobertaLayer.forward for action # 0 on a tensor.
LayerValue(cfg, lname, idx, hs, attention_mask, keep_prob) ==
  LET pre_attn_input == maybe_layer_norm(cfg, lname, idx, hs, "PreAttentionLayerNorm", PreLn)
      self_attn_out == RobertaAttention_forward(lname, idx, pre_attn_input, attention_mask)
      attention_output == DivKeepProb(self_attn_out.attention_output, keep_prob)
      intermediate_input ==
        maybe_layer_norm(cfg, lname, idx, Add(hs, attention_output),
                         "PreAttentionLayerNorm", PostLn)
      intermediate_pre_ffn ==
        maybe_layer_norm(cfg, lname, idx, intermediate_input,
                         "PostAttentionLayerNorm", PreLn)
      layer_output == DivKeepProb(FeedForward(lname, idx, intermediate_pre_ffn), keep_prob)
  IN [layer_output |->
        maybe_layer_norm(cfg, lname, idx, Add(layer_output, intermediate_input),
                         "PostAttentionLayerNorm", PostLn),
      attention_probs |-> self_attn_out.attention_probs]

RobertaLayer_forward_noskip(cfg, lname, idx, h, hid, attention_mask, action, keep_prob) ==
  LET v == LayerValue(cfg, lname, idx, h[hid], attention_mask, keep_prob)
  IN [heap |-> Append(h, v.layer_output), layer_output |-> Len(h) + 1,
      attention_probs |-> v.attention_probs, err |-> FALSE]

\* RobertaLayer.forward on the tensor object `hid` of heap `h`.  The result
\* names the returned objects: for action = 0 the object given, otherwise a
\* new object.  A python tuple given as hidden_states makes the first tensor
\* operation raise.
RobertaLayer_forward(cfg, lname, idx, h, hid, attention_mask, action, keep_prob) ==
  IF action = 0
  THEN [heap |-> h, layer_output |-> hid, attention_probs |-> NoneV, err |-> FALSE]
  ELSE IF IsTuple(h[hid])
  THEN [heap |-> h, layer_output |-> hid, attention_probs |-> NoneV, err |-> TRUE]
  ELSE LET v == LayerValue(cfg, lname, idx, h[hid], attention_mask, keep_prob)
       IN [heap |-> Append(h, v.layer_output), layer_output |-> Len(h) + 1,
           attention_probs |-> v.attention_probs, err |-> FALSE]

LayerIdle == [status |-> "none", heap |-> <<>>, layer_output |-> 0,
              attention_probs |-> NoneV]

CallLayer ==
  /\ layer_ret.status = "none"
  /\ LET r == RobertaLayer_forward(layer_call.cfg, "layer", 0,
                                   <<layer_call.hidden_states>>, 1,
                                   layer_call.attention_mask,
                                   layer_call.action, layer_call.keep_prob)
     IN layer_ret' = [status |-> "returned", heap |-> r.heap,
                      layer_output |-> r.layer_output,
                      attention_probs |-> r.attention_probs]
  /\ UNCHANGED layer_call

-----------------------------------------------------------------------------
(* RobertaEncoder.forward *)

\* The locals of one call of RobertaEncoder.forward.  heap[1] is the
\* caller's embedding_output, heap[2] the N-gram embedding output; chunks and
\* calls record which layer objects were run, on which operand.
EncEntry(cfg) ==
  [pc |-> "start",
   heap |-> <<Leaf("embedding_output"), Leaf("Ngram_embedding_output")>>,
   hidden_states |-> 1,
   Ngram_hidden_states |-> IF cfg.is_Ngram THEN 2 ELSE 0,
   all_encoder_layers |-> <<>>, all_attentions |-> <<>>,
   i |-> 0, l |-> 0, chunk_length |-> 0, chunks |-> <<>>, calls |-> <<>>,
   outputs |-> <<>>]

attention_mask == Leaf("extended_attention_mask")
Ngram_attention_mask == Leaf("extended_Ngram_attention_mask")
Ngram_position_matrix == Leaf("Ngram_position_matrix")

CeilSqrt_floor(n) == CHOOSE c \in 0..n : c * c <= n /\ (c + 1) * (c + 1) > n

\* math.ceil(math.sqrt(n))
CeilSqrt(n) == CHOOSE c \in 0..n : c * c >= n /\ (c = 0 \/ (c - 1) * (c - 1) < n)

Min(a, b) == IF a < b THEN a ELSE b

\* add_attention
add_attention(atts, attention_probs) ==
  IF attention_probs # NoneV THEN Append(atts, attention_probs) ELSE atts

LayerCfg(cfg) == [useLN |-> cfg.useLN, encoder_ln_mode |-> cfg.encoder_ln_mode]

MainLayerCall_inplace(cfg, k, h, hid) ==
  LET r == RobertaLayer_forward(LayerCfg(cfg), "layer", k, h, hid, attention_mask, 1, 100)
  IN [heap |-> [h EXCEPT ![hid] = r.heap[r.layer_output]], layer_output |-> hid,
      attention_probs |-> r.attention_probs, err |-> r.err]

\* One call of self.layer[k] as the encoder makes it: the transformer kernel
\* returns a tensor, RobertaLayer a pair (layer_output, attention_probs).
MainLayerCall(cfg, k, h, hid) ==
  IF cfg.is_transformer_kernel
  THEN [heap |-> Append(h, T("DeepSpeedTransformerLayer", k, <<h[hid], attention_mask>>)),
        layer_output |-> Len(h) + 1, attention_probs |-> NoneV, err |-> IsTuple(h[hid])]
  ELSE RobertaLayer_forward(LayerCfg(cfg), "layer", k, h, hid, attention_mask, 1, 100)

FusesNgram_inclusive(cfg, k) == cfg.is_Ngram /\ k <= cfg.num_hidden_Ngram_layers

\* if self.is_Ngram: if i < self.num_hidden_Ngram_layers: ...
FusesNgram(cfg, k) == cfg.is_Ngram /\ k < cfg.num_hidden_Ngram_layers

\* The body of `for i, layer_module in enumerate(self.layer)`
LoopBody(cfg, args, s) ==
  LET k == s.i
      r == MainLayerCall(cfg, k, s.heap, s.hidden_states)
      atts == IF ~cfg.is_transformer_kernel /\ args.output_attentions
              THEN add_attention(s.all_attentions, r.attention_probs)
              ELSE s.all_attentions
      c1 == Append(s.calls, [module |-> "layer", idx |-> k, step |-> k,
                             input |-> s.heap[s.hidden_states]])
      n == RobertaLayer_forward(LayerCfg(cfg), "Ngram_layer", k, r.heap,
                                s.Ngram_hidden_states, Ngram_attention_mask, 1, 100)
      Ngram_states == T("bmm", 0, <<Ngram_position_matrix, n.heap[n.layer_output]>>)
      \* hidden_states += Ngram_states: the object is updated in place
      h2 == IF FusesNgram(cfg, k)
            THEN [n.heap EXCEPT ![r.layer_output] = T("iadd", 0, <<@, Ngram_states>>)]
            ELSE r.heap
      c2 == IF FusesNgram(cfg, k)
            THEN Append(c1, [module |-> "Ngram_layer", idx |-> k, step |-> k,
                             input |-> s.heap[s.Ngram_hidden_states]])
            ELSE c1
  IN [s EXCEPT !.heap = h2,
               !.hidden_states = r.layer_output,
               !.Ngram_hidden_states = IF FusesNgram(cfg, k) THEN n.layer_output ELSE @,
               !.all_attentions = atts,
               !.all_encoder_layers = IF args.output_all_encoded_layers
                                      THEN Append(@, r.layer_output) ELSE @,
               !.calls = c2,
               !.i = k + 1]

\* custom(start, end)(hidden_states, attention_mask): x_ = layer(x_, inputs[1])
\* for the layers of self.layer[start:end]; x_ is whatever the layer returns.
\* (the state handed to the next iteration is bound by a quantifier, so that
\* it is evaluated once)
RECURSIVE custom_forward(_, _, _, _)
custom_forward(cfg, k, end, st) ==
  IF k >= end \/ st.err THEN st
  ELSE LET r == MainLayerCall(cfg, k, st.heap, st.x)
           c1 == Append(st.calls, [module |-> "layer", idx |-> k, step |-> k,
                                   input |-> st.heap[st.x]])
           next == IF r.err THEN [st EXCEPT !.err = TRUE, !.calls = c1]
                   ELSE IF cfg.is_transformer_kernel
                   THEN [heap |-> r.heap, x |-> r.layer_output, err |-> FALSE,
                         calls |-> c1]
                   ELSE [heap |-> Append(r.heap, PyTuple(T("ref", r.layer_output, <<>>),
                                                         r.attention_probs)),
                         x |-> Len(r.heap) + 1, err |-> FALSE, calls |-> c1]
       IN CHOOSE res \in {custom_forward(cfg, k + 1, end, x) : x \in {next}} : TRUE

\* self.layer[start:end]: the indices in the slice
SliceEnd(end, num_layers) == Min(end, num_layers)

\* one iteration of `while l < num_layers`
ChunkBody(cfg, s) ==
  LET end == SliceEnd(s.l + s.chunk_length, cfg.num_hidden_layers)
      r == custom_forward(cfg, s.l, end,
             [heap |-> s.heap, x |-> s.hidden_states, err |-> FALSE, calls |-> s.calls])
  IN [s EXCEPT !.heap = r.heap,
               !.hidden_states = r.x,
               !.calls = r.calls,
               !.chunks = Append(@, [start |-> s.l, end |-> end]),
               !.l = s.l + s.chunk_length,
               !.pc = IF r.err THEN "error" ELSE @]

AppendsFinal_always(args) == TRUE

\* if not output_all_encoded_layers or checkpoint_activations
AppendsFinal(args) == ~args.output_all_encoded_layers \/ args.checkpoint_activations

FinalNormApplies_postln(cfg, args) ==
  AppendsFinal(args) /\ cfg.useLN /\ StrIn(cfg.encoder_ln_mode, PostLn)

\* if self.config.useLN and self.config.encoder_ln_mode in "pre-ln"
FinalNormApplies(cfg, args) ==
  AppendsFinal(args) /\ cfg.useLN /\ StrIn(cfg.encoder_ln_mode, PreLn)

\* lines 617-625
FinalBody(cfg, args, s) ==
  LET normed == FinalNormApplies(cfg, args)
      h2 == IF normed
            THEN Append(s.heap, T("FinalLayerNorm", 0, <<s.heap[s.hidden_states]>>))
            ELSE s.heap
      hs == IF normed THEN Len(s.heap) + 1 ELSE s.hidden_states
      layers == IF AppendsFinal(args) THEN Append(s.all_encoder_layers, hs)
                ELSE s.all_encoder_layers
  IN IF normed /\ IsTuple(s.heap[s.hidden_states])
     THEN [s EXCEPT !.pc = "error"]
     ELSE [s EXCEPT !.heap = h2, !.hidden_states = hs,
                    !.all_encoder_layers = layers,
                    !.outputs = IF args.output_attentions
                                THEN <<"all_encoder_layers", "all_attentions">>
                                ELSE <<"all_encoder_layers">>,
                    !.pc = "done"]

\* if checkpoint_activations: l = 0; chunk_length = ceil(sqrt(num_layers))
EnterBody(cfg, args, s) ==
  IF args.checkpoint_activations
  THEN [s EXCEPT !.pc = "while", !.l = 0,
                 !.chunk_length = CeilSqrt(cfg.num_hidden_layers)]
  ELSE [s EXCEPT !.pc = "for", !.i = 0]

\* The whole call, from state s to its return or its exception.
\* One step of the call: the statement at s.pc
EncoderStep(cfg, args, s) ==
  CASE s.pc = "start" -> EnterBody(cfg, args, s)
    [] s.pc = "for" -> IF s.i < cfg.num_hidden_layers
                       THEN LoopBody(cfg, args, s)
                       ELSE [s EXCEPT !.pc = "final"]
    [] s.pc = "while" -> IF s.l < cfg.num_hidden_layers
                         THEN ChunkBody(cfg, s)
                         ELSE [s EXCEPT !.pc = "final"]
    [] s.pc = "final" -> FinalBody(cfg, args, s)
    [] OTHER -> s

\* The whole call, from state s to its return or its exception.
RECURSIVE EncoderRun(_, _, _)
EncoderRun(cfg, args, s) ==
  IF s.pc \in {"done", "error"} THEN s
  ELSE CHOOSE res \in {EncoderRun(cfg, args, x) : x \in {EncoderStep(cfg, args, s)}} : TRUE

EncEnter ==
  /\ enc.pc = "start"
  /\ enc' = EnterBody(config, enc_args, enc)
  /\ UNCHANGED <<config, enc_args>>

EncLayerStep ==
  /\ enc.pc = "for"
  /\ enc.i < config.num_hidden_layers
  /\ enc' = LoopBody(config, enc_args, enc)
  /\ UNCHANGED <<config, enc_args>>

EncChunkStep ==
  /\ enc.pc = "while"
  /\ enc.l < config.num_hidden_layers
  /\ enc' = ChunkBody(config, enc)
  /\ UNCHANGED <<config, enc_args>>

EncLoopExit ==
  /\ \/ enc.pc = "for" /\ enc.i >= config.num_hidden_layers
     \/ enc.pc = "while" /\ enc.l >= config.num_hidden_layers
  /\ enc' = [enc EXCEPT !.pc = "final"]
  /\ UNCHANGED <<config, enc_args>>

EncFinal ==
  /\ enc.pc = "final"
  /\ enc' = FinalBody(config, enc_args, enc)
  /\ UNCHANGED <<config, enc_args>>

-----------------------------------------------------------------------------
(* Construction of a model variant and RobertaPreTrainedModel._init_weights *)

\* How a parameter was last filled: a distribution and, for normal, its
\* standard deviation in thousandths.
Filled(dist, std) == [dist |-> dist, std |-> std]
NoParam == Filled("None", 0)

\* torch's reset_parameters of the module classes, as the constructors leave
\* them: nn.Linear and LinearActivation (lines 143-148) kaiming-uniform
\* weight and uniform bias, nn.Embedding normal(0, 1), nn.LayerNorm ones and
\* zeros, RMSNorm (lines 219-220) scale ones and no offset.
NewModule(name, class) ==
  [name |-> name, class |-> class,
   weight |-> IF class \in {"nn.Linear", "LinearActivation"} THEN Filled("kaiming_uniform", 0)
              ELSE IF class = "nn.Embedding" THEN Filled("normal", 1000)
              ELSE IF class \in {"nn.LayerNorm", "RMSNorm"} THEN Filled("ones", 0)
              ELSE NoParam,
   bias |-> IF class \in {"nn.Linear", "LinearActivation"} THEN Filled("uniform", 0)
            ELSE IF class = "nn.LayerNorm" THEN Filled("zeros", 0)
            ELSE NoParam]

\* the class get_layer_norm_type(config) returns
NormClass(cfg) == IF cfg.layer_norm_type = "rms_norm" THEN "RMSNorm" ELSE "nn.LayerNorm"

\* linear_layer(...): LinearActivation holds the parameters itself,
\* RegularLinearActivation holds an nn.Linear named dense
ActivationModules(cfg, name) ==
  IF cfg.fused_linear_layer THEN <<NewModule(name, "LinearActivation")>>
  ELSE <<NewModule(name, "RegularLinearActivation"), NewModule(name, "nn.Linear")>>

\* RobertaLayer.__init__ and the constructors below it
LayerModules(cfg, k) ==
  <<NewModule(<<"layer", k, "query">>, "nn.Linear"),
    NewModule(<<"layer", k, "key">>, "nn.Linear"),
    NewModule(<<"layer", k, "value">>, "nn.Linear"),
    NewModule(<<"layer", k, "attention.output.dense">>, "nn.Linear"),
    NewModule(<<"layer", k, "PreAttentionLayerNorm">>, NormClass(cfg)),
    NewModule(<<"layer", k, "PostAttentionLayerNorm">>, NormClass(cfg))>>
  \o ActivationModules(cfg, <<"layer", k, "intermediate.dense">>)
  \o <<NewModule(<<"layer", k, "output.dense">>, "nn.Linear")>>

RECURSIVE EncoderLayers(_, _)
EncoderLayers(cfg, k) ==
  IF k = cfg.num_hidden_layers THEN <<>>
  ELSE LayerModules(cfg, k) \o EncoderLayers(cfg, k + 1)

\* RobertaModel.__init__: the module itself, then its submodules
RobertaModel_init(cfg) ==
  <<NewModule(<<"roberta", 0, "">>, "RobertaModel"),
    NewModule(<<"embeddings", 0, "word_embeddings">>, "nn.Embedding"),
    NewModule(<<"embeddings", 0, "position_embeddings">>, "nn.Embedding"),
    NewModule(<<"embeddings", 0, "token_type_embeddings">>, "nn.Embedding")>>
  \o (IF cfg.is_Ngram
      THEN <<NewModule(<<"Ngram_embeddings", 0, "word_embeddings">>, "nn.Embedding"),
             NewModule(<<"Ngram_embeddings", 0, "token_type_embeddings">>, "nn.Embedding"),
             NewModule(<<"Ngram_embeddings", 0, "LayerNorm">>, "nn.LayerNorm")>>
      ELSE <<>>)
  \o <<NewModule(<<"encoder", 0, "FinalLayerNorm">>, NormClass(cfg))>>
  \o EncoderLayers(cfg, 0)
  \o ActivationModules(cfg, <<"pooler", 0, "dense_act">>)

\* RobertaPreTrainedModel._init_weights(module): acts on the module it is
\* given, by its class
RobertaPreTrainedModel_init_weights(cfg, module) ==
  LET w == IF module.class \in {"nn.Linear", "nn.Embedding"}
           THEN [module EXCEPT !.weight = Filled("normal", cfg.initializer_range)]
           ELSE IF module.class = "nn.LayerNorm"
           THEN [module EXCEPT !.bias = Filled("zeros", 0), !.weight = Filled("ones", 0)]
           ELSE module
  IN IF module.class = "nn.Linear" /\ module.bias # NoParam
     THEN [w EXCEPT !.bias = Filled("zeros", 0)]
     ELSE w

IniIdle == [pc |-> "new", roberta |-> <<>>]

\* self.roberta = RobertaModel(config, args)
IniBuildRoberta ==
  /\ ini.pc = "new"
  /\ ini' = [pc |-> "built", roberta |-> RobertaModel_init(ini_cfg)]
  /\ UNCHANGED ini_cfg

\* self._init_weights(self.roberta): one call, on the RobertaModel object,
\* which is roberta[1]
IniInitWeights ==
  /\ ini.pc = "built"
  /\ ini' = [pc |-> "constructed",
             roberta |-> [ini.roberta EXCEPT
                            ![1] = RobertaPreTrainedModel_init_weights(ini_cfg, @)]]
  /\ UNCHANGED ini_cfg

-----------------------------------------------------------------------------
(* RobertaModel.forward: the attention bias *)

Grids(B, S, vals) == [1..B -> [1..S -> vals]]

\* torch.ones_like(input_ids)
ones_like(shape) == [b \in 1..shape[1] |-> [k \in 1..shape[2] |-> 1]]

BiasEntry_noinvert(m) == m * (-10000)

\* (1.0 - m) * -10000.0 on one entry
BiasEntry(m) == (1 - m) * (-10000)

\* attention_mask.unsqueeze(1).unsqueeze(2), then (1.0 - mask) * -10000.0:
\* shape [batch, 1, 1, to_seq]
extended_attention_mask(mask) ==
  [b \in DOMAIN mask |-> << << [k \in DOMAIN mask[b] |-> BiasEntry(mask[b][k])] >> >>]

\* lines 786-807
BuildBias(call) ==
  LET am == IF call.attention_mask_given THEN call.attention_mask
            ELSE ones_like(call.shape)
  IN extended_attention_mask(am)

ModelBuildBias ==
  /\ bias_ret.status = "none"
  /\ bias_ret' = [status |-> "built", extended_attention_mask |-> BuildBias(bias_call)]
  /\ UNCHANGED bias_call

-----------------------------------------------------------------------------
(* The masked-token index list *)

LabelVals == {-1, 0, 1}
Batches == {1, 2}

\* tensor.view(-1) of a (batch, seq) tensor: row-major, 0-based positions
RECURSIVE view_flat(_)
view_flat(t) == IF t = <<>> THEN <<>> ELSE t[1] \o view_flat(Tail(t))

AsSeq(f) == [k \in 1..Len(f) |-> f[k]]
Rows(g) == [b \in 1..Len(g) |-> AsSeq(g[b])]

Selected_noshift(label) == label # 0

\* is this entry of (masked_lm_labels + 1) selected by torch.nonzero
Selected(label) == label + 1 # 0

\* torch.nonzero(v, as_tuple=False).view(-1) applied to (labels + 1).view(-1):
\* the 0-based positions of the nonzero entries, ascending
RECURSIVE nonzero_from(_, _)
nonzero_from(v, p) ==
  IF p > Len(v) THEN <<>>
  ELSE IF Selected(v[p]) THEN <<p - 1>> \o nonzero_from(v, p + 1)
  ELSE nonzero_from(v, p + 1)

masked_token_indexes_of(labels) == nonzero_from(view_flat(Rows(labels)), 1)

index_select_prefix(flat, index) == [k \in 1..Len(index) |-> flat[k]]

\* torch.index_select(t, 0, index) on a flat tensor
index_select(flat, index) == [k \in 1..Len(index) |-> flat[index[k] + 1]]

ComputeMaskedIndexes ==
  /\ idx_ret.status = "none"
  /\ idx_ret' = [status |-> "computed",
                 masked_token_indexes |-> masked_token_indexes_of(idx_labels)]
  /\ UNCHANGED idx_labels

-----------------------------------------------------------------------------
(* Parameters shared between the embedding table and the masked-LM head *)

\* Parameter objects live in tie.params and are named by their index; a
\* module attribute holds such a name.  A weight matrix is abstracted to one
\* number.
TieIdle == [pc |-> "new", variant |-> "none", sparse_mask_prediction |-> FALSE,
            params |-> <<>>, word_embeddings_weight |-> 0, decoder_weight |-> 0,
            head_bias |-> 0, decoder_bias |-> 0,
            last |-> [side |-> "none", value |-> 0], updates |-> 0]

TiedDecoderWeight_cloned(params, roberta_model_embedding_weights) ==
  [params |-> Append(params, params[roberta_model_embedding_weights]),
   weight |-> Len(params) + 1]

\* self.decoder.weight = roberta_model_embedding_weights: the attribute is
\* bound to the parameter object passed in
TiedDecoderWeight(params, roberta_model_embedding_weights) ==
  [params |-> params, weight |-> roberta_model_embedding_weights]

\* RobertaLMPredictionHead.__init__: nn.Linear allocates a weight of its own,
\* which the assignment then replaces; self.bias is a new zero parameter and
\* becomes the decoder's bias only without sparse_mask_prediction.
RobertaLMPredictionHead_init(st, sparse, own_weight) ==
  LET p1 == Append(st.params, own_weight)
      tied == TiedDecoderWeight(p1, st.word_embeddings_weight)
      p2 == Append(tied.params, 0)
  IN [st EXCEPT !.params = p2,
                !.decoder_weight = tied.weight,
                !.head_bias = Len(p2),
                !.decoder_bias = IF ~sparse THEN Len(p2) ELSE 0,
                !.sparse_mask_prediction = sparse]

\* RobertaPreTrainedModel._init_weights(module): acts on nn.Linear,
\* nn.Embedding and nn.LayerNorm modules only
init_weights(st, module_type) ==
  IF module_type \in {"Linear", "Embedding", "LayerNorm"}
  THEN [st EXCEPT !.params = [k \in 1..Len(st.params) |-> 0]]
  ELSE st

\* RobertaForPreTraining.__init__ / RobertaLMHeadModel.__init__
ModelWithHead_init(variant, sparse, emb_weight, own_weight) ==
  LET roberta == [TieIdle EXCEPT !.variant = variant,
                                 !.params = <<emb_weight>>,
                                 !.word_embeddings_weight = 1]
      withcls == RobertaLMPredictionHead_init(roberta, sparse, own_weight)
  IN [init_weights(withcls, "RobertaModel") EXCEPT !.pc = "built"]

Weights == 0..MaxWeight

TieConstruct ==
  /\ tie.pc = "new"
  /\ \E variant \in {"RobertaForPreTraining", "RobertaLMHeadModel"},
        sparse \in BOOLEAN, w \in Weights, own \in Weights :
        tie' = ModelWithHead_init(variant, sparse, w, own)

\* An in-place update (optimizer step, .data assignment) of the parameter
\* reached through one of the two modules.
TieUpdate ==
  /\ tie.pc = "built"
  /\ tie.updates < MaxUpdates
  /\ \E side \in {"word_embeddings", "decoder"}, v \in Weights :
        LET ref == IF side = "word_embeddings" THEN tie.word_embeddings_weight
                   ELSE tie.decoder_weight
        IN tie' = [tie EXCEPT !.params[ref] = v,
                              !.last = [side |-> side, value |-> v],
                              !.updates = @ + 1]

-----------------------------------------------------------------------------
(* RobertaModel.forward: the encoder call and the returned tuple *)

\* The encoder configuration of the models called below.
ModelConfig(useLN, kernel) ==
  [num_hidden_layers |-> 2, num_hidden_Ngram_layers |-> 0, is_Ngram |-> FALSE,
   is_transformer_kernel |-> kernel, useLN |-> useLN, encoder_ln_mode |-> PreLn]

ValuesOf(s, ids) == [k \in 1..Len(ids) |-> s.heap[ids[k]]]

\* lines 838-851 on the encoder state e at its end.  The result is the
\* returned tuple, or an exception: the encoder's, or the pooler's when the
\* last encoder output is not a tensor.
ModelOutput(args, e) ==
  LET encoded_layers == ValuesOf(e, e.all_encoder_layers)
      sequence_output == encoded_layers[Len(encoded_layers)]
      pooled_output == T("pooler", 0, <<sequence_output>>)
      first == IF ~args.output_all_encoded_layers THEN sequence_output
               ELSE T("list", 0, encoded_layers)
  IN IF e.pc = "error" THEN [status |-> "TypeError", output |-> <<>>]
     ELSE IF IsTuple(sequence_output) THEN [status |-> "TypeError", output |-> <<>>]
     ELSE [status |-> "returned",
           output |-> IF args.output_attentions
                      THEN <<first, pooled_output, T("list", 0, e.all_attentions)>>
                      ELSE <<first, pooled_output>>]

\* lines 827-851
RobertaModel_forward(cfg, args) ==
  ModelOutput(args, EncoderRun(cfg, args, EncEntry(cfg)))

-----------------------------------------------------------------------------
(* RobertaLMPredictionHead and the two models that use it *)

\* hidden_states.view(-1, hidden)[p]
Row(X, p) == T("row", p, <<X>>)

\* RobertaPredictionHeadTransform.forward on one row (dense_act and the norm
\* act on the last axis)
RobertaPredictionHeadTransform_forward(useLN, x) ==
  IF useLN THEN T("LayerNorm", 0, <<T("dense_act", 0, <<x>>)>>)
  ELSE T("dense_act", 0, <<x>>)

ZeroBias == [v \in 1..VocabSize |-> 0]

DecoderBias_always(sparse_predict, bias) == bias

\* lines 669-676: the decoder is built with bias=False and is given self.bias
\* only without sparse_mask_prediction; a decoder without bias adds nothing
DecoderBias(sparse_predict, bias) == IF ~sparse_predict THEN bias ELSE ZeroBias

\* self.decoder on one row: the product with the tied weight, plus the bias
decoder(sparse_predict, bias, x) ==
  [matmul |-> T("decoder.weight", 0, <<x>>), bias |-> DecoderBias(sparse_predict, bias)]

\* RobertaLMPredictionHead.forward; X has n rows
RobertaLMPredictionHead_forward(c, X, n, idx_given, masked_token_indexes) ==
  IF c.sparse_mask_prediction
  THEN LET hs == IF idx_given
                 THEN [k \in 1..Len(masked_token_indexes) |-> Row(X, masked_token_indexes[k])]
                 ELSE [q \in 1..n |-> Row(X, q - 1)]
       IN [status |-> "returned",
           rows |-> [k \in 1..Len(hs) |->
                       decoder(TRUE, c.bias,
                               RobertaPredictionHeadTransform_forward(c.useLN, hs[k]))]]
  ELSE LET all == [q \in 1..n |->
                     decoder(FALSE, c.bias,
                             RobertaPredictionHeadTransform_forward(c.useLN, Row(X, q - 1)))]
       IN IF ~idx_given
          \* torch.index_select(..., 0, None)
          THEN [status |-> "TypeError", rows |-> <<>>]
          ELSE [status |-> "returned", rows |-> index_select(all, masked_token_indexes)]

CrossEntropyLoss(input, target) ==
  [kind |-> "CrossEntropyLoss", ignore_index |-> -1, input |-> input, target |-> target]

MlmRetIdle == [status |-> "none", returns |-> "none", masked_token_indexes |-> <<>>,
               prediction_scores |-> <<>>, target |-> <<>>, rest |-> <<>>]

MlmRaise == [MlmRetIdle EXCEPT !.status = "TypeError"]

\* self.roberta(..., output_all_encoded_layers=False,
\* checkpoint_activations=checkpoint_activations): neither model passes
\* output_attentions on
MlmEncode(c) ==
  RobertaModel_forward(ModelConfig(c.useLN, FALSE),
    [output_all_encoded_layers |-> FALSE, checkpoint_activations |-> FALSE,
     output_attentions |-> FALSE])

\* lines 880-886 / 944-951 on the head's result ps
WithLabels(returns, idx, labels, ps, rest) ==
  IF ps.status # "returned" THEN MlmRaise
  ELSE [status |-> "returned", returns |-> returns,
        masked_token_indexes |-> idx, prediction_scores |-> ps.rows,
        target |-> index_select(view_flat(Rows(labels)), idx), rest |-> rest]

\* the head called without masked_token_indexes
WithoutLabels(returns, ps, rest) ==
  IF ps.status # "returned" THEN MlmRaise
  ELSE [status |-> "returned", returns |-> returns,
        masked_token_indexes |-> <<>>, prediction_scores |-> ps.rows,
        target |-> <<>>, rest |-> rest]

NumRows(c) == c.shape[1] * c.shape[2]

\* RobertaForPreTraining.forward after self.roberta returned r
PreTrainingAfterEncode(c, r, idx) ==
  IF r.status # "returned" THEN MlmRaise
  ELSE IF c.labels_given /\ c.next_sentence_label_given
  THEN WithLabels("total_loss", idx, c.masked_lm_labels,
         RobertaLMPredictionHead_forward(c, r.output[1], NumRows(c), TRUE, idx), <<>>)
  ELSE WithoutLabels("logits_pair",
         RobertaLMPredictionHead_forward(c, r.output[1], NumRows(c), FALSE, <<>>),
         <<T("seq_relationship", 0, <<r.output[2]>>)>>)

\* RobertaForPreTraining.forward
RobertaForPreTraining_forward(c) ==
  PreTrainingAfterEncode(c, MlmEncode(c),
    IF c.labels_given THEN masked_token_indexes_of(c.masked_lm_labels) ELSE <<>>)

\* RobertaLMHeadModel.forward after self.roberta returned roberta_output
LMHeadAfterEncode(c, roberta_output, idx) ==
  IF roberta_output.status # "returned" THEN MlmRaise
  ELSE IF ~c.labels_given
  THEN WithoutLabels("prediction_scores",
         RobertaLMPredictionHead_forward(c, roberta_output.output[1], NumRows(c),
                                         FALSE, <<>>), <<>>)
  ELSE WithLabels("loss_tuple", idx, c.masked_lm_labels,
         RobertaLMPredictionHead_forward(c, roberta_output.output[1], NumRows(c),
                                         TRUE, idx),
         \* outputs += (roberta_output[-1],)
         IF c.output_attentions
         THEN <<roberta_output.output[Len(roberta_output.output)]>>
         ELSE <<>>)

\* RobertaLMHeadModel.forward
RobertaLMHeadModel_forward(c) ==
  LMHeadAfterEncode(c, MlmEncode(c),
    IF c.labels_given THEN masked_token_indexes_of(c.masked_lm_labels) ELSE <<>>)

MlmForward ==
  /\ mlm_ret.status = "none"
  /\ mlm_ret' = IF mlm_call.variant = "RobertaForPreTraining"
                THEN RobertaForPreTraining_forward(mlm_call)
                ELSE RobertaLMHeadModel_forward(mlm_call)
  /\ UNCHANGED mlm_call

-----------------------------------------------------------------------------
(* RobertaForSequenceClassification.forward *)

UsesRegression_binary(num_labels) == num_labels <= 2

\* if self.num_labels == 1
UsesRegression(num_labels) == num_labels = 1

NoLoss == [kind |-> "None", input |-> NoneV, target |-> <<>>]

\* lines 1004-1024; outputs is what self.roberta returned
ClassifierResult(call, outputs) ==
  LET logits == T("classifier", call.num_labels,
                  <<T("dropout", 0, <<outputs.output[2]>>)>>)
  IN IF outputs.status # "returned"
     THEN [status |-> "TypeError", loss |-> NoLoss, logits |-> NoneV,
           hidden_states |-> NoneV, attentions |-> NoneV]
     ELSE [status |-> "returned",
           loss |-> IF call.labels_given
                    THEN IF UsesRegression(call.num_labels)
                         THEN [kind |-> "MSELoss",
                               input |-> T("view", 1, <<logits>>),
                               target |-> call.labels]
                         ELSE [kind |-> "CrossEntropyLoss",
                               input |-> T("view", call.num_labels, <<logits>>),
                               target |-> call.labels]
                    ELSE NoLoss,
           logits |-> logits,
           hidden_states |-> NoneV, attentions |-> NoneV]

\* RobertaForSequenceClassification.forward
RobertaForSequenceClassification_forward(call) ==
  ClassifierResult(call,
    RobertaModel_forward(ModelConfig(TRUE, call.is_transformer_kernel),
      [output_all_encoded_layers |-> FALSE,
       checkpoint_activations |-> call.checkpoint_activations,
       output_attentions |-> FALSE]))

ClsCalls ==
  UNION {
    {[num_labels |-> n, labels_given |-> TRUE, labels |-> lb,
      checkpoint_activations |-> ck, is_transformer_kernel |-> kn] :
       lb \in UNION {[1..B -> 0..(IF n = 1 THEN 1 ELSE n - 1)] : B \in 1..MaxBatch},
       ck \in BOOLEAN, kn \in BOOLEAN}
    \cup {[num_labels |-> n, labels_given |-> FALSE, labels |-> <<>>,
           checkpoint_activations |-> ck, is_transformer_kernel |-> kn] :
            ck \in BOOLEAN, kn \in BOOLEAN}
    : n \in 1..MaxNumLabels}
ClsCallOff == [num_labels |-> 1, labels_given |-> FALSE, labels |-> <<>>,
               checkpoint_activations |-> FALSE, is_transformer_kernel |-> FALSE]

\* the calls on label grids of at most maxFlat entries
MlmCalls(maxFlat) ==
  UNION {
    {[variant |-> "RobertaForPreTraining", sparse_mask_prediction |-> sp, useLN |-> ln,
      bias |-> b, shape |-> sh, labels_given |-> lg,
      masked_lm_labels |-> IF lg THEN lb ELSE <<>>,
      next_sentence_label_given |-> x, output_attentions |-> FALSE] :
       sp \in BOOLEAN, ln \in BOOLEAN, b \in [1..VocabSize -> {0, 1}],
       lb \in Grids(sh[1], sh[2], LabelVals), lg \in BOOLEAN, x \in BOOLEAN}
    \cup
    {[variant |-> "RobertaLMHeadModel", sparse_mask_prediction |-> sp, useLN |-> ln,
      bias |-> b, shape |-> sh, labels_given |-> lg,
      masked_lm_labels |-> IF lg THEN lb ELSE <<>>,
      next_sentence_label_given |-> FALSE, output_attentions |-> x] :
       sp \in BOOLEAN, ln \in BOOLEAN, b \in [1..VocabSize -> {0, 1}],
       lb \in Grids(sh[1], sh[2], LabelVals), lg \in BOOLEAN, x \in BOOLEAN}
    : sh \in {c \in Batches \X (1..MaxMlmSeq) : c[1] * c[2] <= maxFlat}}
MlmCallOff == [variant |-> "none", sparse_mask_prediction |-> FALSE, useLN |-> FALSE,
               bias |-> ZeroBias, shape |-> <<1, 1>>, labels_given |-> FALSE,
               masked_lm_labels |-> <<>>, next_sentence_label_given |-> FALSE,
               output_attentions |-> FALSE]

ClsRetIdle == [status |-> "none", loss |-> NoLoss, logits |-> NoneV,
               hidden_states |-> NoneV, attentions |-> NoneV]

ClsForward ==
  /\ cls_ret.status = "none"
  /\ cls_ret' = RobertaForSequenceClassification_forward(cls_call)
  /\ UNCHANGED cls_call

-----------------------------------------------------------------------------
(* Specifications: one per component; the variables of the other         *)
(* components stay at their idle values.                                   *)

AttnConfigs == [hidden_size : 1..MaxHidden, num_attention_heads : 1..MaxHeads,
                target : Targets]
AttnConfigOff == [hidden_size |-> 1, num_attention_heads |-> 1,
                  target |-> "RobertaSelfAttention"]

LayerCalls == [cfg : [useLN : BOOLEAN, encoder_ln_mode : LnModes],
               hidden_states : {Leaf("embedding_output"), Leaf("x"),
                                Add(Leaf("x"), Leaf("y"))},
               attention_mask : {Leaf("zeros"), Leaf("extended_attention_mask"),
                                 Leaf("all_masked")},
               action : {0, 1},
               keep_prob : {100, 50}]
LayerCallOff == [cfg |-> [useLN |-> FALSE, encoder_ln_mode |-> PreLn],
                 hidden_states |-> Leaf("x"), attention_mask |-> Leaf("zeros"),
                 action |-> 0, keep_prob |-> 100]

EncArgs == [output_all_encoded_layers : BOOLEAN,
            checkpoint_activations : BOOLEAN,
            output_attentions : BOOLEAN]
EncConfigs == [num_hidden_layers : 1..MaxCkptLayers,
               num_hidden_Ngram_layers : 0..MaxNgramLayers,
               is_Ngram : BOOLEAN, is_transformer_kernel : BOOLEAN,
               useLN : BOOLEAN, encoder_ln_mode : LnModes]
\* without checkpointing every layer quadruples the term of the hidden state
EncLayersFor(args) ==
  IF args.checkpoint_activations THEN 1..MaxCkptLayers ELSE 1..MaxLayers
EncIdle == [pc |-> "idle", heap |-> <<>>, hidden_states |-> 0,
            Ngram_hidden_states |-> 0, all_encoder_layers |-> <<>>,
            all_attentions |-> <<>>, i |-> 0, l |-> 0, chunk_length |-> 0,
            chunks |-> <<>>, calls |-> <<>>, outputs |-> <<>>]
EncConfigOff == [num_hidden_layers |-> 1, num_hidden_Ngram_layers |-> 0,
                 is_Ngram |-> FALSE, is_transformer_kernel |-> FALSE,
                 useLN |-> FALSE, encoder_ln_mode |-> PreLn]
EncArgsOff == [output_all_encoded_layers |-> FALSE,
               checkpoint_activations |-> FALSE, output_attentions |-> FALSE]

BiasCalls ==
  UNION {
    {[shape |-> <<B, S>>, attention_mask_given |-> TRUE, attention_mask |-> m] :
       m \in Grids(B, S, {0, 1})}
    \cup {[shape |-> <<B, S>>, attention_mask_given |-> FALSE, attention_mask |-> <<>>]}
    : <<B, S>> \in (1..MaxBatch) \X (1..MaxSeq)}
BiasCallOff == [shape |-> <<1, 1>>, attention_mask_given |-> FALSE,
                attention_mask |-> <<>>]

\* the label grids of at most maxFlat entries
IdxLabels(maxFlat) ==
  UNION {Grids(B, S, LabelVals) :
           <<B, S>> \in {c \in Batches \X (1..maxFlat) : c[1] * c[2] <= maxFlat}}

\* the calls on vectors of at most maxDim entries
RmsCalls(maxDim) ==
  UNION {[d : {d}, p : PFractions, bias : BOOLEAN, x : [1..d -> {0, 1, 2}]] :
           d \in 1..maxDim}
RmsCallOff == [d |-> 1, p |-> Frac(-1, 1), bias |-> FALSE, x |-> <<1>>]

ProviderEnvOff == [loaded |-> FALSE, apex_installed |-> FALSE,
                   deepspeed_installed |-> FALSE, LAYER_NORM_TYPES |-> <<>>]
ProviderEnvs == {[ProviderEnvOff EXCEPT !.apex_installed = a, !.deepspeed_installed = d] :
                   a \in BOOLEAN, d \in BOOLEAN}

EmbConfigs == [layernorm_embedding : {"absent", "False", "True"},
               dotted_attr : {"absent", "False", "True"}]
\* the composer calls on id grids of at most maxBatch rows and maxSeq columns
EmbCalls(maxBatch, maxSeq) ==
  UNION {
    [composer : {"RobertaEmbeddings", "RobertaNgramEmbeddings"}, config : EmbConfigs,
     input_ids : Grids(B, S, {0, 1}), token_type_given : {TRUE},
     token_type_ids : Grids(B, S, {0, 1})]
    \cup
    [composer : {"RobertaEmbeddings", "RobertaNgramEmbeddings"}, config : EmbConfigs,
     input_ids : Grids(B, S, {0, 1}), token_type_given : {FALSE},
     token_type_ids : {<<>>}]
    : <<B, S>> \in (1..maxBatch) \X (1..maxSeq)}
EmbCallOff == [composer |-> "none",
               config |-> [layernorm_embedding |-> "absent", dotted_attr |-> "absent"],
               input_ids |-> <<>>, token_type_given |-> FALSE, token_type_ids |-> <<>>]

\* the variants and configurations of at most maxLayers layers;
\* initializer_range is in thousandths
IniConfigs(maxLayers) ==
  [variant : {"RobertaForPreTraining", "RobertaLMHeadModel",
              "RobertaForSequenceClassification"},
   layer_norm_type : {"pytorch", "apex", "rms_norm"},
   fused_linear_layer : BOOLEAN, is_Ngram : BOOLEAN,
   num_hidden_layers : 1..maxLayers, initializer_range : {10, 20}]
IniConfigOff == [variant |-> "none", layer_norm_type |-> "pytorch",
                 fused_linear_layer |-> FALSE, is_Ngram |-> FALSE,
                 num_hidden_layers |-> 1, initializer_range |-> 20]

InitOf(which) ==
  /\ attn_config \in (IF which = "attn" THEN AttnConfigs ELSE {AttnConfigOff})
  /\ attn_state = [AttnIdle EXCEPT !.status = IF which = "attn" THEN "new" ELSE "off"]
  /\ layer_call \in (IF which = "layer" THEN LayerCalls ELSE {LayerCallOff})
  /\ layer_ret = [LayerIdle EXCEPT !.status = IF which = "layer" THEN "none" ELSE "off"]
  /\ enc_args \in (IF which = "enc" THEN EncArgs ELSE {EncArgsOff})
  /\ config \in (IF which = "enc"
                 THEN {c \in EncConfigs : c.num_hidden_layers \in EncLayersFor(enc_args)}
                 ELSE {EncConfigOff})
  /\ enc = (IF which = "enc" THEN EncEntry(config)
            ELSE IF which = "ckpt" THEN [EncIdle EXCEPT !.pc = "uncalled"]
            ELSE EncIdle)
  /\ bias_call \in (IF which = "bias" THEN BiasCalls ELSE {BiasCallOff})
  /\ bias_ret = [status |-> IF which = "bias" THEN "none" ELSE "off",
                 extended_attention_mask |-> <<>>]
  /\ idx_labels \in (IF which = "idx" THEN IdxLabels(MaxFlat) ELSE {<<>>})
  /\ idx_ret = [status |-> IF which = "idx" THEN "none" ELSE "off",
                masked_token_indexes |-> <<>>]
  /\ tie = [TieIdle EXCEPT !.pc = IF which = "tie" THEN "new" ELSE "off"]
  /\ cls_call \in (IF which = "cls" THEN ClsCalls ELSE {ClsCallOff})
  /\ cls_ret = [ClsRetIdle EXCEPT !.status = IF which = "cls" THEN "none" ELSE "off"]
  /\ mlm_call \in (IF which = "mlm" THEN MlmCalls(MaxMlmFlat) ELSE {MlmCallOff})
  /\ mlm_ret = [MlmRetIdle EXCEPT !.status = IF which = "mlm" THEN "none" ELSE "off"]
  /\ rms_call \in (IF which = "rms" THEN RmsCalls(MaxDim) ELSE {RmsCallOff})
  /\ rms_ret = [RmsIdle EXCEPT !.status = IF which = "rms" THEN "none" ELSE "off"]
  /\ prov_env \in (IF which = "prov" THEN ProviderEnvs ELSE {ProviderEnvOff})
  /\ prov_log = <<>>
  /\ emb_call \in (IF which = "emb" THEN EmbCalls(MaxEmbBatch, MaxEmbSeq) ELSE {EmbCallOff})
  /\ emb_mod = [EmbModIdle EXCEPT !.status = IF which = "emb" THEN "new" ELSE "off"]
  /\ emb_ret = [EmbRetIdle EXCEPT !.status = IF which = "emb" THEN "none" ELSE "off"]
  /\ ini_cfg \in (IF which = "ini" THEN IniConfigs(MaxIniLayers) ELSE {IniConfigOff})
  /\ ini = [IniIdle EXCEPT !.pc = IF which = "ini" THEN "new" ELSE "off"]

AttnNext == ConstructAttention /\ UNCHANGED <<layerVars, encVars, biasVars, idxVars, tieVars, clsVars, mlmVars, rmsVars, provVars, embVars, iniVars>>
SpecAttn == InitOf("attn") /\ [][AttnNext]_vars

LayerNext == CallLayer /\ UNCHANGED <<attnVars, encVars, biasVars, idxVars, tieVars, clsVars, mlmVars, rmsVars, provVars, embVars, iniVars>>
SpecLayer == InitOf("layer") /\ [][LayerNext]_vars

EncNext == (EncEnter \/ EncLayerStep \/ EncChunkStep \/ EncLoopExit \/ EncFinal)
           /\ UNCHANGED <<attnVars, layerVars, biasVars, idxVars, tieVars, clsVars, mlmVars, rmsVars, provVars, embVars, iniVars>>
SpecEnc == InitOf("enc") /\ [][EncNext]_vars

\* The calls with checkpoint_activations; a forward call that has been
\* entered runs until it returns or raises.
\* The checkpointed branch reads neither is_Ngram nor the N-gram layers.
EncCallCheckpointed ==
  /\ enc.pc = "uncalled"
  /\ enc_args' \in {a \in EncArgs : a.checkpoint_activations}
  /\ config' \in {c \in EncConfigs : ~c.is_Ngram /\ c.num_hidden_Ngram_layers = 0}
  /\ enc' = EncEntry(config')

CkptNext == (EncCallCheckpointed \/ EncEnter \/ EncChunkStep \/ EncLoopExit \/ EncFinal)
            /\ UNCHANGED <<attnVars, layerVars, biasVars, idxVars, tieVars, clsVars, mlmVars, rmsVars, provVars, embVars, iniVars>>
SpecCkpt == InitOf("ckpt") /\ [][CkptNext]_vars /\ WF_vars(CkptNext)

BiasNext == ModelBuildBias /\ UNCHANGED <<attnVars, layerVars, encVars, idxVars, tieVars, clsVars, mlmVars, rmsVars, provVars, embVars, iniVars>>
SpecBias == InitOf("bias") /\ [][BiasNext]_vars

IdxNext == ComputeMaskedIndexes /\ UNCHANGED <<attnVars, layerVars, encVars, biasVars, tieVars, clsVars, mlmVars, rmsVars, provVars, embVars, iniVars>>
SpecIdx == InitOf("idx") /\ [][IdxNext]_vars

TieNext == (TieConstruct \/ TieUpdate) /\ UNCHANGED <<attnVars, layerVars, encVars, biasVars, idxVars, clsVars, mlmVars, rmsVars, provVars, embVars, iniVars>>
SpecTie == InitOf("tie") /\ [][TieNext]_vars

ClsNext == ClsForward /\ UNCHANGED <<attnVars, layerVars, encVars, biasVars, idxVars, tieVars, mlmVars, rmsVars, provVars, embVars, iniVars>>
SpecCls == InitOf("cls") /\ [][ClsNext]_vars

MlmNext == MlmForward /\ UNCHANGED <<attnVars, layerVars, encVars, biasVars, idxVars, tieVars, clsVars, rmsVars, provVars, embVars, iniVars>>
SpecMlm == InitOf("mlm") /\ [][MlmNext]_vars

RmsNext == RmsForward /\ UNCHANGED <<attnVars, layerVars, encVars, biasVars, idxVars, tieVars, clsVars, mlmVars, provVars, embVars, iniVars>>
SpecRms == InitOf("rms") /\ [][RmsNext]_vars

ProvNext == (LoadModule \/ CallGetLayerNormType \/ CallGetDeepspeedConfig \/ ConstructEncoder)
            /\ UNCHANGED <<attnVars, layerVars, encVars, biasVars, idxVars, tieVars, clsVars, mlmVars, rmsVars, embVars, iniVars>>
SpecProv == InitOf("prov") /\ [][ProvNext]_vars

EmbNext == (EmbConstruct \/ EmbForward)
           /\ UNCHANGED <<attnVars, layerVars, encVars, biasVars, idxVars, tieVars, clsVars, mlmVars, rmsVars, provVars, iniVars>>
SpecEmb == InitOf("emb") /\ [][EmbNext]_vars

IniNext == (IniBuildRoberta \/ IniInitWeights)
           /\ UNCHANGED <<attnVars, layerVars, encVars, biasVars, idxVars, tieVars, clsVars, mlmVars, rmsVars, provVars, embVars>>
SpecIni == InitOf("ini") /\ [][IniNext]_vars

-----------------------------------------------------------------------------
(* Claims *)

\* C1: constructing the attention block, or anything that contains one, on
\* the default path raises the configuration error exactly when hidden_size
\* is not a multiple of num_attention_heads, and otherwise constructs it.
C1_HeadsDivisibility ==
  attn_state.status # "new" =>
    /\ attn_config.hidden_size % attn_config.num_attention_heads # 0
         => attn_state.status = "ValueError"
    /\ attn_config.hidden_size % attn_config.num_attention_heads = 0
         => /\ attn_state.status = "constructed"
            /\ attn_state.all_head_size = attn_config.hidden_size

C1_Witness ==
  /\ attn_state.status = "ValueError"
  /\ attn_config.target = "RobertaForPreTraining"
  /\ attn_config.hidden_size = 10 /\ attn_config.num_attention_heads = 4

\* C2: RobertaLayer.forward with action = 0 returns the very hidden-state
\* object it was given, creates no tensor (no sub-block and no norm ran) and
\* returns no attention probabilities, whatever the mask, keep_prob and mode.
C2_ActionZeroIdentity ==
  (layer_ret.status = "returned" /\ layer_call.action = 0) =>
    /\ layer_ret.layer_output = 1
    /\ layer_ret.heap = <<layer_call.hidden_states>>
    /\ layer_ret.attention_probs = NoneV

C2_Witness ==
  /\ layer_ret.status = "returned" /\ layer_call.action = 0
  /\ layer_call.cfg.useLN /\ layer_call.cfg.encoder_ln_mode = PostLn
  /\ layer_call.keep_prob = 50
  /\ layer_call.attention_mask = Leaf("all_masked")

\* C3: every entry of the attention bias is 0 where the padding mask is 1
\* and -10000 where it is 0; without a mask, and for an all-ones mask, the
\* bias is all zero.
C3_Mask == IF bias_call.attention_mask_given THEN bias_call.attention_mask
           ELSE ones_like(bias_call.shape)

C3_BiasValues ==
  bias_ret.status = "built" =>
    LET e == bias_ret.extended_attention_mask
    IN /\ Len(e) = bias_call.shape[1]
       /\ \A b \in 1..bias_call.shape[1] :
            /\ Len(e[b]) = 1 /\ Len(e[b][1]) = 1
            /\ Len(e[b][1][1]) = bias_call.shape[2]
            /\ \A k \in 1..bias_call.shape[2] :
                 e[b][1][1][k] = IF C3_Mask[b][k] = 1 THEN 0 ELSE -10000
       /\ (\A b \in 1..bias_call.shape[1], k \in 1..bias_call.shape[2] :
             C3_Mask[b][k] = 1)
          => \A b \in 1..bias_call.shape[1], k \in 1..bias_call.shape[2] :
               e[b][1][1][k] = 0

C3_Witness ==
  /\ bias_ret.status = "built"
  /\ bias_call.attention_mask_given
  /\ bias_call.shape = <<2, 3>>
  /\ bias_call.attention_mask[2][3] = 0
  /\ bias_call.attention_mask[1][1] = 1
  /\ bias_ret.extended_attention_mask[2][1][1][3] = -10000
  /\ bias_ret.extended_attention_mask[1][1][1][1] = 0

\* C6: the masked-token index list is the ascending, duplicate-free list of
\* the flat row-major positions whose label is not -1; for shape (2, 5) with
\* real labels only at (0,2) and (1,0) it is [2, 5].
C6_RealPositions ==
  LET S == Len(idx_labels[1])
  IN {p \in 0..(Len(idx_labels) * S - 1) : idx_labels[(p \div S) + 1][(p % S) + 1] # -1}

C6_OnlyAt(cells) ==
  \A b \in 1..Len(idx_labels), k \in 1..Len(idx_labels[1]) :
    (idx_labels[b][k] # -1) <=> (<<b - 1, k - 1>> \in cells)

C6_IndexList ==
  idx_ret.status = "computed" =>
    LET m == idx_ret.masked_token_indexes
    IN /\ \A a, b \in 1..Len(m) : a < b => m[a] < m[b]
       /\ {m[a] : a \in 1..Len(m)} = C6_RealPositions
       /\ (Len(idx_labels) = 2 /\ Len(idx_labels[1]) = 5
           /\ C6_OnlyAt({<<0, 2>>, <<1, 0>>})) => m = <<2, 5>>

C6_Witness ==
  /\ idx_ret.status = "computed"
  /\ Len(idx_labels) = 2 /\ Len(idx_labels[1]) = 5
  /\ C6_OnlyAt({<<0, 2>>, <<1, 0>>})
  /\ idx_labels[1][3] = 0
  /\ idx_ret.masked_token_indexes = <<2, 5>>

\* The hidden state a finished encoder call returns last.
FinalHidden(s) == s.heap[s.all_encoder_layers[Len(s.all_encoder_layers)]]

C4_RunWith(flag) ==
  EncoderRun(config, [enc_args EXCEPT !.output_all_encoded_layers = flag],
             EncEntry(config))

C4_Case ==
  /\ enc.pc = "done"
  /\ ~enc_args.checkpoint_activations
  /\ ~config.is_Ngram
  /\ config.encoder_ln_mode = PreLn

C4_Same(a, b) == FinalHidden(a) = FinalHidden(b)

\* C4 as stated: without checkpointing and N-gram fusion, in pre-norm mode,
\* the last returned hidden state is the same with output_all_encoded_layers
\* True and False.
C4_SameFinalHidden ==
  C4_Case => C4_Same(enc, C4_RunWith(~enc_args.output_all_encoded_layers))

C4_Relation(all, last) ==
  /\ Len(all.all_encoder_layers) = config.num_hidden_layers
  /\ Len(last.all_encoder_layers) = 1
  /\ FinalHidden(last) = IF config.useLN
                         THEN T("FinalLayerNorm", 0, <<FinalHidden(all)>>)
                         ELSE FinalHidden(all)
  /\ enc.all_encoder_layers =
       IF enc_args.output_all_encoded_layers THEN all.all_encoder_layers
       ELSE last.all_encoder_layers
  /\ FinalHidden(enc) =
       IF enc_args.output_all_encoded_layers THEN FinalHidden(all)
       ELSE FinalHidden(last)

\* C4 amended: in that case the list has L entries with the flag True and one
\* entry with it False; the last hidden state with the flag False is
\* FinalLayerNorm applied to the last hidden state with the flag True when
\* normalization is enabled, and the same hidden state when it is not.
C4_FinalHiddenUpToFinalNorm ==
  C4_Case => C4_Relation(C4_RunWith(TRUE), C4_RunWith(FALSE))

C4_Witness ==
  /\ C4_Case
  /\ config.useLN
  /\ config.num_hidden_layers = 2
  /\ enc_args.output_all_encoded_layers
  /\ ~config.is_transformer_kernel
  /\ Len(enc.all_encoder_layers) = 2

C5_Size(k) == enc.chunks[k].end - enc.chunks[k].start

C5_Prefix ==
  LET n == config.num_hidden_layers
      c == enc.chunk_length
  IN (enc_args.checkpoint_activations /\ enc.pc # "start") =>
       /\ c * c >= n /\ (c - 1) * (c - 1) < n
       /\ \A k \in 1..Len(enc.chunks) :
            /\ enc.chunks[k].start = (k - 1) * c
            /\ enc.chunks[k].end = Min(k * c, n)
            /\ enc.chunks[k].start < n

C5_Complete ==
  LET n == config.num_hidden_layers
      c == enc.chunk_length
      m == Len(enc.chunks)
  IN (enc_args.checkpoint_activations /\ enc.pc \in {"final", "done"}) =>
       /\ \A x \in 0..(n - 1) :
            Cardinality({k \in 1..m : enc.chunks[k].start <= x /\ x < enc.chunks[k].end}) = 1
       /\ \A k \in 1..(m - 1) : C5_Size(k) = c
       /\ C5_Size(m) >= 1 /\ C5_Size(m) <= c
       /\ n = 10 => [k \in 1..m |-> C5_Size(k)] = <<4, 4, 2>>

C10_NgramCalls == {c \in 1..Len(enc.calls) : enc.calls[c].module = "Ngram_layer"}

\* what N-gram layer k must be given: the output of N-gram layer k - 1
RECURSIVE C10_NgramIn(_)
C10_NgramIn(k) ==
  IF k = 0 THEN Leaf("Ngram_embedding_output")
  ELSE LayerValue(LayerCfg(config), "Ngram_layer", k - 1, C10_NgramIn(k - 1),
                  Ngram_attention_mask, 100).layer_output

C10_MainOut(k, input) ==
  IF config.is_transformer_kernel
  THEN T("DeepSpeedTransformerLayer", k, <<input, attention_mask>>)
  ELSE LayerValue(LayerCfg(config), "layer", k, input, attention_mask, 100).layer_output

C10_MainInput(k) ==
  LET c == CHOOSE c \in 1..Len(enc.calls) :
             enc.calls[c].module = "layer" /\ enc.calls[c].step = k
  IN enc.calls[c].input

\* C10: in the non-checkpointed loop, step i runs N-gram layer i, once, on
\* the output of N-gram layer i - 1 and adds its projection to the main
\* hidden state exactly when fusion is enabled and i < num_hidden_Ngram_layers;
\* otherwise the step leaves the N-gram state and the layer output alone, and
\* without fusion no N-gram layer runs.
C10_NgramFusion ==
  (enc.pc \in {"for", "final"} /\ ~enc_args.checkpoint_activations) =>
    LET m == enc.i
        nN == config.num_hidden_Ngram_layers
    IN /\ ~config.is_Ngram => C10_NgramCalls = {}
       /\ \A k \in 0..(m - 1) :
            LET at == {c \in C10_NgramCalls : enc.calls[c].step = k}
            IN IF config.is_Ngram /\ k < nN
               THEN /\ Cardinality(at) = 1
                    /\ \A c \in at : /\ enc.calls[c].idx = k
                                     /\ enc.calls[c].input = C10_NgramIn(k)
               ELSE at = {}
       /\ m >= 1 =>
            enc.heap[enc.hidden_states] =
              IF config.is_Ngram /\ m - 1 < nN
              THEN T("iadd", 0, <<C10_MainOut(m - 1, C10_MainInput(m - 1)),
                                  T("bmm", 0, <<Ngram_position_matrix, C10_NgramIn(m)>>)>>)
              ELSE C10_MainOut(m - 1, C10_MainInput(m - 1))
       /\ config.is_Ngram => enc.heap[enc.Ngram_hidden_states] = C10_NgramIn(Min(m, nN))

C10_Witness ==
  /\ enc.pc = "final" /\ ~enc_args.checkpoint_activations
  /\ config.is_Ngram /\ config.num_hidden_Ngram_layers = 2
  /\ config.num_hidden_layers = 3
  /\ Cardinality(C10_NgramCalls) = 2

\* C7: once a joint-pretraining or MLM-only model is constructed, and after
\* every update through either module, the decoder weight and the
\* token-embedding weight are one parameter object: the last value written
\* through one side is the value read through both, and no parameter object
\* is added for a copy.
C7_WeightTying ==
  tie.pc = "built" =>
    /\ tie.decoder_weight = tie.word_embeddings_weight
    /\ tie.params[tie.decoder_weight] = tie.params[tie.word_embeddings_weight]
    /\ tie.last.side # "none" =>
         /\ tie.params[tie.decoder_weight] = tie.last.value
         /\ tie.params[tie.word_embeddings_weight] = tie.last.value
    /\ Len(tie.params) = 3

C7_Witness ==
  /\ tie.pc = "built"
  /\ tie.variant = "RobertaLMHeadModel"
  /\ tie.updates = 2
  /\ tie.last = [side |-> "decoder", value |-> 2]
  /\ tie.params[tie.word_embeddings_weight] = 2

\* C9: with labels the loss is the squared error over the flattened logits
\* exactly when num_labels is 1 and the cross-entropy over num_labels classes
\* otherwise; without labels there is no loss; the result always carries the
\* logits and no hidden states or attentions.
C9_LossKind ==
  cls_ret.status = "returned" =>
    LET logits == cls_ret.logits
    IN /\ logits[1] = "classifier" /\ logits[2] = cls_call.num_labels
       /\ logits[3][1][1] = "dropout" /\ logits[3][1][3][1][1] = "pooler"
       /\ cls_ret.hidden_states = NoneV /\ cls_ret.attentions = NoneV
       /\ ~cls_call.labels_given => cls_ret.loss.kind = "None"
       /\ cls_call.labels_given =>
            /\ (cls_ret.loss.kind = "MSELoss") <=> (cls_call.num_labels = 1)
            /\ cls_call.num_labels = 1 => cls_ret.loss.input = T("view", 1, <<logits>>)
            /\ cls_call.num_labels # 1 =>
                 /\ cls_ret.loss.kind = "CrossEntropyLoss"
                 /\ cls_ret.loss.input = T("view", cls_call.num_labels, <<logits>>)
            /\ cls_ret.loss.target = cls_call.labels

C9_Witness ==
  /\ cls_ret.status = "returned"
  /\ cls_call.num_labels = 3 /\ cls_call.labels_given
  /\ cls_ret.loss.kind = "CrossEntropyLoss"

C8_Case ==
  /\ mlm_ret.status = "returned"
  /\ mlm_call.labels_given
  /\ mlm_ret.masked_token_indexes # <<>>

C8_Rows(sparse) ==
  RobertaLMPredictionHead_forward(
    [mlm_call EXCEPT !.sparse_mask_prediction = sparse],
    MlmEncode(mlm_call).output[1], NumRows(mlm_call),
    TRUE, mlm_ret.masked_token_indexes).rows

C8_Same(sp, de) == sp = de

\* C8 as stated: for the same parameters, hidden states and non-empty index
\* list, the head returns the same logit rows with sparse_mask_prediction on
\* and off.
C8_SparseSameAsDense == C8_Case => C8_Same(C8_Rows(TRUE), C8_Rows(FALSE))

C8_Relation(sp, de) ==
  /\ Len(sp) = Len(mlm_ret.masked_token_indexes) /\ Len(de) = Len(sp)
  /\ \A k \in 1..Len(sp) :
       /\ de[k].matmul = sp[k].matmul
       /\ sp[k].bias = ZeroBias
       /\ de[k].bias = mlm_call.bias
  /\ (sp = de) <=> (mlm_call.bias = ZeroBias)

\* the rows the call itself returned are those of its own mode
C8_Returned ==
  mlm_ret.prediction_scores = C8_Rows(mlm_call.sparse_mask_prediction)

\* C8 amended: the rows returned with sparse_mask_prediction off are the rows
\* returned with it on, each plus the head's bias vector, which the sparse
\* head never adds; the two results are the same exactly when that bias
\* vector is zero.
C8_DenseIsSparsePlusBias ==
  C8_Case => (C8_Relation(C8_Rows(TRUE), C8_Rows(FALSE)) /\ C8_Returned)

C8_Witness ==
  /\ C8_Case
  /\ mlm_call.sparse_mask_prediction
  /\ mlm_call.bias # ZeroBias
  /\ Len(mlm_ret.masked_token_indexes) = 2
  /\ mlm_call.shape = <<2, 2>>

C11_Condition ==
  /\ config.useLN
  /\ config.encoder_ln_mode = PreLn
  /\ (~enc_args.output_all_encoded_layers \/ enc_args.checkpoint_activations)

C11_IsFinalNorm(t) == t[1] = "FinalLayerNorm"

\* C11: no tensor of an encoder call is an output of FinalLayerNorm unless
\* normalization is enabled, the placement is pre-norm and
\* (output_all_encoded_layers is False or checkpoint_activations is True);
\* and under that condition the last hidden state a call returns is
\* FinalLayerNorm applied to the hidden state the layers left.
C11_FinalNormOnlyWhen ==
  /\ \A k \in 1..Len(enc.heap) : C11_IsFinalNorm(enc.heap[k]) => C11_Condition
  /\ (enc.pc = "done" /\ C11_Condition) =>
       /\ C11_IsFinalNorm(FinalHidden(enc))
       /\ \E j \in 1..(Len(enc.heap) - 1) : FinalHidden(enc)[3] = <<enc.heap[j]>>
  /\ (enc.pc = "done" /\ ~C11_Condition) => ~C11_IsFinalNorm(FinalHidden(enc))

C11_Witness ==
  /\ enc.pc = "done"
  /\ enc_args.checkpoint_activations /\ enc_args.output_all_encoded_layers
  /\ config.useLN /\ config.encoder_ln_mode = PreLn
  /\ config.num_hidden_layers = 2
  /\ C11_IsFinalNorm(FinalHidden(enc))

C12_Called ==
  /\ mlm_call.variant = "RobertaForPreTraining"
  /\ mlm_ret.status \notin {"none", "off"}

\* C12 as stated: RobertaForPreTraining.forward returns the sum of the
\* masked-LM loss and the next-sentence loss when both label tensors are
\* given, and otherwise returns the pair (prediction logits,
\* sentence-relationship logits) without raising, with sparse masked
\* prediction on or off.
C12_LossOrLogitsNeverRaises ==
  C12_Called =>
    /\ mlm_ret.status = "returned"
    /\ mlm_ret.returns =
         IF mlm_call.labels_given /\ mlm_call.next_sentence_label_given
         THEN "total_loss" ELSE "logits_pair"

\* the call without both label tensors, sparse masked prediction off, has
\* ended with the TypeError of torch.index_select(..., 0, None)
C12_Witness ==
  /\ C12_Called
  /\ ~mlm_call.sparse_mask_prediction
  /\ ~mlm_call.labels_given
  /\ mlm_ret.status = "TypeError"

C13_Called ==
  /\ mlm_call.variant = "RobertaLMHeadModel"
  /\ mlm_call.labels_given
  /\ mlm_ret.status = "returned"

\* the encoder's list of attention probabilities: one tensor per layer, in
\* layer order
C13_IsAttentionList(x) ==
  /\ x[1] = "list"
  /\ Len(x[3]) = ModelConfig(mlm_call.useLN, FALSE).num_hidden_layers
  /\ \A k \in 1..Len(x[3]) : x[3][k][1] = "attention_probs" /\ x[3][k][2] = k - 1

\* C13 as stated: RobertaLMHeadModel.forward with labels returns, after the
\* loss, the encoder's per-layer attention probabilities when
\* output_attentions is True, and only the loss when it is False.
C13_LossAndAttentions ==
  C13_Called =>
    /\ mlm_ret.returns = "loss_tuple"
    /\ IF mlm_call.output_attentions
       THEN Len(mlm_ret.rest) = 1 /\ C13_IsAttentionList(mlm_ret.rest[1])
       ELSE mlm_ret.rest = <<>>

\* the call with output_attentions=True has returned the pooled output as
\* the second element
C13_Witness ==
  /\ C13_Called
  /\ mlm_call.output_attentions
  /\ Len(mlm_ret.rest) = 1
  /\ mlm_ret.rest[1][1] = "pooler"

C14_Outside == rms_call.p.num < 0 \/ rms_call.p.num > rms_call.p.den

\* C14: with a partial fraction below 0 or above 1, RMSNorm.forward
\* normalizes by the root mean square of the whole last axis (all d entries,
\* divisor d), and returns what RMSNorm with the fraction 1.0 returns on the
\* same input.
C14_OutsideIsWholeAxis ==
  (rms_ret.status \notin {"none", "off"} /\ C14_Outside) =>
    /\ rms_ret.status = "returned"
    /\ rms_ret.d_x = rms_call.d
    /\ rms_ret.norm_sq = SumSq(rms_call.x, rms_call.d)
    /\ rms_ret = RMSNorm_forward([rms_call EXCEPT !.p = Frac(1, 1)])

C14_Witness ==
  /\ rms_ret.status = "returned"
  /\ rms_call.p = Frac(3, 2)
  /\ rms_call.d = 3 /\ rms_call.x = <<1, 2, 2>>
  /\ rms_ret.norm_sq = 9 /\ rms_ret.d_x = 3

C15_ApexMissing(e) ==
  /\ e.request \in {"get_layer_norm_type", "RobertaEncoder"}
  /\ e.layer_norm_type = "apex"
  /\ ~prov_env.apex_installed

C15_KernelWithoutConfig(e) ==
  \/ e.request = "get_deepspeed_config" /\ ~Truthy(e.args.deepspeed_config)
  \/ /\ e.request = "RobertaEncoder"
     /\ Truthy(e.args.deepspeed_transformer_kernel)
     /\ ~Truthy(e.args.deepspeed_config)

\* C15 as stated: every request for the "apex" normalization kind made while
\* apex is not installed raises, and every request for the fused transformer
\* kernel (or its configuration) made without a deepspeed configuration
\* raises; neither yields a substitute.
C15_MissingProviderRaises ==
  \A k \in 1..Len(prov_log) :
    (C15_ApexMissing(prov_log[k]) \/ C15_KernelWithoutConfig(prov_log[k]))
      => prov_log[k].result.raised

\* "apex" was selected without apex installed and torch.nn.LayerNorm came back
C15_Witness ==
  \E k \in 1..Len(prov_log) :
    /\ C15_ApexMissing(prov_log[k])
    /\ prov_log[k].request = "get_layer_norm_type"
    /\ prov_log[k].result = Returned("torch.nn.LayerNorm")

\* the part of C15 the code keeps: without a deepspeed configuration the
\* kernel request raises
C15_KernelRaises ==
  \A k \in 1..Len(prov_log) :
    C15_KernelWithoutConfig(prov_log[k]) => prov_log[k].result.raised

C16_TokenType(b, k) ==
  IF emb_call.token_type_given THEN emb_call.token_type_ids[b][k] ELSE 0

C16_Sum(b, k) ==
  IF emb_call.composer = "RobertaEmbeddings"
  THEN Add(Add(T("word_embeddings", emb_call.input_ids[b][k], <<>>),
               T("position_embeddings", k - 1, <<>>)),
           T("token_type_embeddings", C16_TokenType(b, k), <<>>))
  ELSE Add(T("word_embeddings", emb_call.input_ids[b][k], <<>>),
           T("token_type_embeddings", C16_TokenType(b, k), <<>>))

\* the configuration's embedding-normalization flag is set
C16_FlagSet == emb_call.config.layernorm_embedding = "True"

C16_Normalizes ==
  emb_call.composer = "RobertaNgramEmbeddings" \/ C16_FlagSet

\* C16 as stated: the main composer returns token + position + segment
\* embeddings (positions 0..seq-1, segment ids zero when omitted),
\* normalized if and only if the configuration's layernorm_embedding flag is
\* set; the N-gram composer returns token + segment embeddings, always
\* normalized.
C16_EmbeddingSum ==
  emb_ret.status = "returned" =>
    \A b \in DOMAIN emb_call.input_ids : \A k \in DOMAIN emb_call.input_ids[b] :
      emb_ret.embeddings[b][k] =
        T("dropout", 0, <<IF C16_Normalizes THEN T("LayerNorm", 0, <<C16_Sum(b, k)>>)
                          ELSE C16_Sum(b, k)>>)

\* the main composer, built from a configuration whose layernorm_embedding
\* is True, has returned a sum that was not normalized
C16_Witness ==
  /\ emb_ret.status = "returned"
  /\ emb_call.composer = "RobertaEmbeddings"
  /\ C16_FlagSet /\ emb_call.config.dotted_attr = "absent"
  /\ Len(emb_call.input_ids[1]) = 2
  /\ emb_ret.embeddings[1][2] = T("dropout", 0, <<C16_Sum(1, 2)>>)

\* the part of C16 the code keeps: the sums themselves, and the N-gram
\* composer's normalization
C16_SumsAsStated ==
  emb_ret.status = "returned" =>
    \A b \in DOMAIN emb_call.input_ids : \A k \in DOMAIN emb_call.input_ids[b] :
      emb_ret.embeddings[b][k] \in
        {T("dropout", 0, <<T("LayerNorm", 0, <<C16_Sum(b, k)>>)>>)}
        \cup (IF emb_call.composer = "RobertaEmbeddings"
              THEN {T("dropout", 0, <<C16_Sum(b, k)>>)} ELSE {})

C17_IsDense(m) == m.class \in {"nn.Linear", "LinearActivation"}
C17_IsNorm(m) == m.class \in {"nn.LayerNorm", "RMSNorm"}

\* C17 as stated: once a model variant is constructed, every embedding and
\* dense-projection weight of the wrapped encoder model is normal with
\* standard deviation initializer_range, every dense-projection bias is
\* zero, and every normalization module has zero bias and unit scale.
C17_EncoderInitialized ==
  ini.pc = "constructed" =>
    \A k \in 1..Len(ini.roberta) :
      LET m == ini.roberta[k]
      IN /\ (m.class = "nn.Embedding" \/ C17_IsDense(m)) =>
              m.weight = Filled("normal", ini_cfg.initializer_range)
         /\ C17_IsDense(m) => m.bias = Filled("zeros", 0)
         /\ C17_IsNorm(m) =>
              m.weight = Filled("ones", 0) /\ m.bias \in {Filled("zeros", 0), NoParam}

\* a constructed variant whose word embedding still has torch's normal(0, 1)
\* and whose query projection its kaiming-uniform weight and uniform bias
C17_Witness ==
  /\ ini.pc = "constructed"
  /\ ini_cfg.initializer_range = 20
  /\ \E k \in 1..Len(ini.roberta) :
       /\ ini.roberta[k].name = <<"embeddings", 0, "word_embeddings">>
       /\ ini.roberta[k].weight = Filled("normal", 1000)
  /\ \E k \in 1..Len(ini.roberta) :
       /\ ini.roberta[k].name = <<"layer", 0, "query">>
       /\ ini.roberta[k].weight = Filled("kaiming_uniform", 0)
       /\ ini.roberta[k].bias = Filled("uniform", 0)

\* the part of C17 the code keeps, by torch's defaults: the normalization
\* modules have unit scale and zero (or no) bias
C17_NormsAsStated ==
  ini.pc = "constructed" =>
    \A k \in 1..Len(ini.roberta) :
      C17_IsNorm(ini.roberta[k]) =>
        /\ ini.roberta[k].weight = Filled("ones", 0)
        /\ ini.roberta[k].bias \in {Filled("zeros", 0), NoParam}

C18_Case == enc_args.checkpoint_activations /\ ~config.is_transformer_kernel

RECURSIVE C18_Chain(_)
\* the hidden state after layers 0 .. k-1, each fed the hidden-state output
\* of the one before
C18_Chain(k) ==
  IF k = 0 THEN Leaf("embedding_output")
  ELSE LayerValue(LayerCfg(config), "layer", k - 1, C18_Chain(k - 1),
                  attention_mask, 100).layer_output

C18_Expected ==
  IF config.useLN /\ config.encoder_ln_mode = PreLn
  THEN T("FinalLayerNorm", 0, <<C18_Chain(config.num_hidden_layers)>>)
  ELSE C18_Chain(config.num_hidden_layers)

\* C18 as stated: with checkpointing and the default layers the call never
\* raises, and when it has returned its hidden-state list has exactly one
\* element, the tensor obtained by applying layers 0 .. L-1 in order, each
\* once, each to the previous layer's hidden-state output (then the final
\* normalization if pre-norm).
C18_CheckpointedChain ==
  C18_Case =>
    /\ enc.pc # "error"
    /\ enc.pc = "done" =>
         /\ Len(enc.all_encoder_layers) = 1
         /\ FinalHidden(enc) = C18_Expected

\* a checkpointed call on two default layers has raised in its first chunk:
\* layer 1 was handed the pair (layer_output, attention_probs) of layer 0
C18_Witness ==
  /\ C18_Case
  /\ config.num_hidden_layers = 2
  /\ enc.pc = "error"
  /\ Len(enc.chunks) = 1
  /\ Len(enc.calls) = 2 /\ IsTuple(enc.calls[2].input)

\* with one default layer and no final normalization the call returns, and
\* the one element of its list is that pair, not a tensor
C18_ReturnsPair ==
  /\ C18_Case
  /\ config.num_hidden_layers = 1
  /\ enc.pc = "done"
  /\ IsTuple(FinalHidden(enc))

C19_Norm(layer_norm, x) == T(layer_norm, 0, <<T("layer", 0, <<>>), x>>)

C19_Attention(x) ==
  DivKeepProb(RobertaAttention_forward("layer", 0, x, layer_call.attention_mask).attention_output,
              layer_call.keep_prob)

C19_FeedForward(x) == DivKeepProb(FeedForward("layer", 0, x), layer_call.keep_prob)

\* pre-norm: each sub-block normalizes its input only and adds the
\* un-normalized input back
C19_PreNorm(x, mid) ==
  /\ mid = Add(x, C19_Attention(C19_Norm("PreAttentionLayerNorm", x)))
  /\ layer_ret.heap[layer_ret.layer_output] =
       Add(C19_FeedForward(C19_Norm("PostAttentionLayerNorm", mid)), mid)

\* post-norm: each sub-block normalizes the result of its residual add only
C19_PostNorm(x, mid) ==
  /\ mid = C19_Norm("PreAttentionLayerNorm", Add(x, C19_Attention(x)))
  /\ layer_ret.heap[layer_ret.layer_output] =
       C19_Norm("PostAttentionLayerNorm", Add(C19_FeedForward(mid), mid))

\* normalization disabled: no normalization at all
C19_NoNorm(x, mid) ==
  /\ mid = Add(x, C19_Attention(x))
  /\ layer_ret.heap[layer_ret.layer_output] = Add(C19_FeedForward(mid), mid)

\* the intermediate_input inside the returned layer output: the second
\* operand of its last residual add
C19_Mid ==
  LET out == layer_ret.heap[layer_ret.layer_output]
  IN IF out[1] = "add" THEN out[3][2] ELSE out[3][2][3][2]

\* C19: with action = 1 and normalization enabled, in pre-norm mode each
\* sub-block normalizes only its input (PreAttentionLayerNorm for attention,
\* PostAttentionLayerNorm for the feed-forward) and the residual adds the
\* un-normalized input; in post-norm mode each normalizes only the result of
\* its residual add, with the same two modules; with normalization disabled
\* nothing is normalized.
C19_NormPlacement ==
  (layer_ret.status = "returned" /\ layer_call.action = 1) =>
    IF ~layer_call.cfg.useLN
    THEN C19_NoNorm(layer_call.hidden_states, C19_Mid)
    ELSE IF layer_call.cfg.encoder_ln_mode = PreLn
    THEN C19_PreNorm(layer_call.hidden_states, C19_Mid)
    ELSE C19_PostNorm(layer_call.hidden_states, C19_Mid)

C19_Witness ==
  /\ layer_ret.status = "returned" /\ layer_call.action = 1
  /\ layer_call.cfg.useLN /\ layer_call.cfg.encoder_ln_mode = PostLn
  /\ layer_call.keep_prob = 50
  /\ layer_ret.heap[layer_ret.layer_output][1] = "PostAttentionLayerNorm"
  /\ C19_Mid[1] = "PreAttentionLayerNorm"

C20_Case == ~enc_args.checkpoint_activations /\ enc_args.output_all_encoded_layers

\* the output of main layer k on x
C20_Main(k, x) ==
  IF config.is_transformer_kernel
  THEN T("DeepSpeedTransformerLayer", k, <<x, attention_mask>>)
  ELSE LayerValue(LayerCfg(config), "layer", k, x, attention_mask, 100).layer_output

RECURSIVE C20_NgramState(_)
\* the N-gram hidden state after N-gram layers 0 .. k-1
C20_NgramState(k) ==
  IF k = 0 THEN Leaf("Ngram_embedding_output")
  ELSE LayerValue(LayerCfg(config), "Ngram_layer", k - 1, C20_NgramState(k - 1),
                  Ngram_attention_mask, 100).layer_output

\* the hidden state after main layer j-1 and its fusion step, from the
\* hidden state before it
C20_Entry(j, prev) ==
  IF config.is_Ngram /\ j - 1 < config.num_hidden_Ngram_layers
  THEN T("iadd", 0, <<C20_Main(j - 1, prev),
                      T("bmm", 0, <<Ngram_position_matrix, C20_NgramState(j)>>)>>)
  ELSE C20_Main(j - 1, prev)

C20_Recorded ==
  C20_Case =>
    /\ enc.heap[1] = Leaf("embedding_output")
    /\ enc.pc = "done" => Len(enc.all_encoder_layers) = config.num_hidden_layers
    /\ \A j \in 1..Len(enc.all_encoder_layers) :
         enc.heap[enc.all_encoder_layers[j]] =
           C20_Entry(j, IF j = 1 THEN enc.heap[1]
                        ELSE enc.heap[enc.all_encoder_layers[j - 1]])

C20_Frame ==
  C20_Case =>
    /\ enc'.heap[1] = enc.heap[1]
    /\ \A j \in 1..Len(enc.all_encoder_layers) :
         /\ enc'.all_encoder_layers[j] = enc.all_encoder_layers[j]
         /\ enc'.heap[enc.all_encoder_layers[j]] = enc.heap[enc.all_encoder_layers[j]]

\* C20: without checkpointing and with output_all_encoded_layers=True the
\* hidden-state list ends with exactly L entries, entry i being the hidden
\* state after main layer i and its N-gram fusion step; no later step, with
\* its in-place fusion addition, changes a recorded entry or the caller's
\* embedding output.
C20_RecordedEntriesStable ==
  /\ []C20_Recorded
  /\ [][C20_Frame]_vars

C20_Witness ==
  /\ C20_Case /\ enc.pc = "done"
  /\ config.is_Ngram /\ config.num_hidden_Ngram_layers = 2
  /\ config.num_hidden_layers = 3
  /\ Len(enc.all_encoder_layers) = 3
  /\ enc.heap[enc.all_encoder_layers[1]][1] = "iadd"
  /\ enc.heap[enc.all_encoder_layers[2]][1] = "iadd"
  /\ enc.heap[enc.all_encoder_layers[3]][1] # "iadd"

\* the label at 0-based flat (row-major) position p of masked_lm_labels
C21_Label(p) ==
  mlm_call.masked_lm_labels[(p \div mlm_call.shape[2]) + 1][(p % mlm_call.shape[2]) + 1]

C21_RealPositions ==
  {p \in 0..(mlm_call.shape[1] * mlm_call.shape[2] - 1) : C21_Label(p) # -1}

\* the flat position of the k-th label different from -1
C21_KthReal(k) ==
  CHOOSE p \in C21_RealPositions :
    Cardinality({q \in C21_RealPositions : q < p}) = k - 1

\* a forward pass that took the loss branch with at least one real label
C21_Case ==
  /\ mlm_ret.status = "returned"
  /\ mlm_call.labels_given
  /\ mlm_call.variant = "RobertaForPreTraining" => mlm_call.next_sentence_label_given
  /\ C21_RealPositions # {}

\* the score row computed from row p of the encoder's sequence output X
C21_ScoreOf(X, p) ==
  T("decoder.weight", 0,
    <<IF mlm_call.useLN
      THEN T("LayerNorm", 0, <<T("dense_act", 0, <<T("row", p, <<X>>)>>)>>)
      ELSE T("dense_act", 0, <<T("row", p, <<X>>)>>)>>)

C21_Paired(X) ==
  /\ Len(mlm_ret.prediction_scores) = Cardinality(C21_RealPositions)
  /\ Len(mlm_ret.target) = Cardinality(C21_RealPositions)
  /\ \A k \in 1..Cardinality(C21_RealPositions) :
       /\ mlm_ret.prediction_scores[k].matmul = C21_ScoreOf(X, C21_KthReal(k))
       /\ mlm_ret.target[k] = C21_Label(C21_KthReal(k))
       /\ mlm_ret.target[k] # -1

\* C21: in the joint-pretraining and MLM-only forward passes with labels
\* holding at least one real label, sparse or not, the number of score rows
\* equals the number of targets equals the number of labels different from
\* -1; row k is computed from the hidden state at the flat position of the
\* k-th real label and is paired with that label; no target handed to the
\* masked-LM cross-entropy is -1.
C21_RowsPairedWithRealLabels ==
  C21_Case => C21_Paired(MlmEncode(mlm_call).output[1])

C21_Witness ==
  /\ C21_Case
  /\ ~mlm_call.sparse_mask_prediction
  /\ mlm_call.variant = "RobertaForPreTraining"
  /\ mlm_call.shape = <<2, 2>>
  /\ C21_RealPositions = {1, 3}
  /\ mlm_ret.returns = "total_loss"
  /\ Len(mlm_ret.prediction_scores) = 2

====
